---- MODULE Spec2Model ----
(***************************************************************************)
(* The pre- and post-processing of a chat model call (cat_agent/llm/base): *)
(*                                                                         *)
(*   Spec       one call truncate_input_messages_roughly(messages,         *)
(*              max_tokens) (truncation.py); the actions are the blocks of *)
(*              that function and of _truncate_turn, in program order.     *)
(*   SpecStop   one call postprocess_stop_words(messages, stop)            *)
(*              (postprocessing.py).                                       *)
(*   SpecCalls  one call of either of the two.                             *)
(*   SpecRetry  one call retry_model_service(fn, max_retries) followed by  *)
(*              one call retry_model_service_iterator(it_fn, max_retries)  *)
(*              on the same per-attempt outcomes (retry.py).               *)
(*   SpecChat   the calls of BaseChatModel.chat on one model object, with  *)
(*              its cache (model.py).                                      *)
(*                                                                         *)
(* and three components of the tools and agents:                           *)
(*                                                                         *)
(*   SpecStorage  a history of calls of Storage.call (tools/storage.py).   *)
(*   SpecMemo     one call MemoAssistant._truncate_dialogue_history        *)
(*                (agents/memo_assistant.py).                              *)
(*   SpecPdq      one run of the generator ParallelDocQA._run, iterated to *)
(*                its end (agents/doc_qa/parallel_doc_qa.py).              *)
(*                                                                         *)
(* A text is a sequence of tokens (integers).  Token 0 is the whitespace   *)
(* token "\n"; the negative token is the text 'omit'.                      *)
(***************************************************************************)
EXTENDS Integers, Sequences, FiniteSets, TLC

VARIABLES
    messages,         \* the caller's list of messages (argument)
    max_tokens,       \* the budget (argument)
    pc,               \* position in truncate_input_messages_roughly / _truncate_turn
    err,              \* "" or the exception the call raised
    ret,              \* the returned list, as entries [idx |-> input position, msg |-> message]
    available_token,  \* local of truncate_input_messages_roughly
    message_tokens,   \* local: msg_idx -> token count (defaultdict(int))
    turns,            \* local: indexed_messages_per_user, as a sequence of sequences of msg_idx
    it,               \* local: index of the turn the loop is at
    exceedance,       \* local of truncate_input_messages_roughly
    new_messages,     \* local: the list under construction
    frame,            \* locals of the running _truncate_turn call
    in_messages,      \* postprocess_stop_words: the caller's list of messages (argument)
    stop,             \* postprocess_stop_words: the stop words (argument)
    spc,              \* position in postprocess_stop_words
    local,            \* locals of postprocess_stop_words
    sret,             \* the list postprocess_stop_words returned
    max_retries,      \* retry wrappers: argument
    outcomes,         \* what each attempt of fn / it_fn did, in order, as far as known
    jitters,          \* the jitter factors drawn for the sleeps, in order, as far as known
    blocking,         \* the call of retry_model_service
    streaming,        \* the call of retry_model_service_iterator
    chat,             \* BaseChatModel: its attributes and the running call of chat
    cache,            \* BaseChatModel.cache: what the disk cache holds
    db,               \* Storage: the content of storage.db, a function from key to value
    ops,              \* Storage: the calls made so far and what each returned
    memo,             \* the call of MemoAssistant._truncate_dialogue_history
    pdq               \* the call of ParallelDocQA._run and what its caller received

truncVars == <<messages, max_tokens, pc, err, ret, available_token, message_tokens,
               turns, it, exceedance, new_messages, frame>>

stopVars == <<in_messages, stop, spc, local, sret>>

retryVars == <<max_retries, outcomes, jitters, blocking, streaming>>

chatVars == <<chat, cache>>

storageVars == <<db, ops>>

agentVars == <<memo, pdq>>

appVars == <<chatVars, storageVars, agentVars>>

vars == <<truncVars, stopVars, retryVars, appVars>>

----------------------------------------------------------------------------
(* Bounds of the model *)

MaxMsgs == 4

MaxTok == 2

MaxBudget == 5

----------------------------------------------------------------------------
(* Message schema *)

SYSTEM == "system"

USER == "user"

ASSISTANT == "assistant"

FUNCTION == "function"

\* Python's None, which _truncate_message may return in place of a message
NoneMsg == [role |-> "None", kind |-> "str", parts |-> <<>>, fc |-> 0]

\* Message(role, content=<str>): no function_call
StrMessage(role, text) == [role |-> role, kind |-> "str", parts |-> <<text>>, fc |-> 0]

\* Message(role, content=[ContentItem(text=..), ...]): no function_call
ListMessage(role, texts) == [role |-> role, kind |-> "list", parts |-> texts, fc |-> 0]

\* the text of n distinct tokens 1..n
Text(n) == [i \in 1..n |-> i]

\* the whitespace token "\n"
WS == 0

\* the placeholder text 'omit'
OMIT == <<-1>>

----------------------------------------------------------------------------
(* Tokenizer *)

RECURSIVE Concat(_)
Concat(texts) ==
    IF texts = <<>> THEN <<>> ELSE Head(texts) \o Concat(Tail(texts))

RECURSIVE JoinNL(_)
JoinNL(texts) ==
    IF texts = <<>> THEN <<>>
    ELSE IF Len(texts) = 1 THEN texts[1]
    ELSE texts[1] \o <<WS>> \o JoinNL(Tail(texts))

RECURSIVE LStrip(_)
LStrip(text) ==
    IF text # <<>> /\ Head(text) = WS THEN LStrip(Tail(text)) ELSE text

RECURSIVE RStrip(_)
RStrip(text) ==
    IF text # <<>> /\ text[Len(text)] = WS
    THEN RStrip(SubSeq(text, 1, Len(text) - 1)) ELSE text

Strip(text) == RStrip(LStrip(text))

\* tokenizer.count_tokens(text)
count_tokens(text) == Len(text)

\* tokenizer.truncate(text, max_token, keep_both_sides=True)
truncate(text, max_token) ==
    IF Len(text) <= max_token THEN text
    ELSE LET left == max_token \div 2
             right == max_token - left
         IN SubSeq(text, 1, left) \o SubSeq(text, Len(text) - right + 1, Len(text))

----------------------------------------------------------------------------
(* Helpers of truncation.py *)

\* extract_text_from_message(msg, add_upload_info=True) for text-only content
extract_text_from_message(msg) == Strip(Concat(msg.parts))

_count_tokens(msg) ==
    IF msg.role = ASSISTANT /\ msg.fc > 0 THEN msg.fc
    ELSE count_tokens(extract_text_from_message(msg))

_truncate_message(msg, max_tok) ==
    IF msg.kind = "str" THEN StrMessage(msg.role, truncate(msg.parts[1], max_tok))
    ELSE IF \E i \in 1..Len(msg.parts) : msg.parts[i] = <<>> THEN NoneMsg
    ELSE StrMessage(msg.role, truncate(JoinNL(msg.parts), max_tok))

\* msg.content = 'omit'
SetOmit(msg) == [msg EXCEPT !.kind = "str", !.parts = <<OMIT>>]

RECURSIVE SumSeq(_)
SumSeq(s) == IF s = <<>> THEN 0 ELSE Head(s) + SumSeq(Tail(s))

----------------------------------------------------------------------------
(* _truncate_turn.  Its locals are the fields of a frame:                  *)
(*   objs                the deep copies of the messages, by msg_idx       *)
(*   indexed_messages1   entries [idx, own, msg]: own = FALSE is a         *)
(*                       reference to objs[idx], own = TRUE holds a        *)
(*                       message built by _truncate_message                *)
(*   messages_per_step   the steps, each a sequence of msg_idx (their      *)
(*                       messages are the objects objs[idx])               *)
(*   messages_to_keep    entries, as indexed_messages1                     *)

Ref(idx) == [idx |-> idx, own |-> FALSE, msg |-> NoneMsg]

Own(idx, msg) == [idx |-> idx, own |-> TRUE, msg |-> msg]

Deref(f, e) == IF e.own THEN e.msg ELSE f.objs[e.idx]

\* [x[1] for x in entries], each with the input position it comes from
Resolve(f, entries) ==
    [k \in 1..Len(entries) |-> [idx |-> entries[k].idx, msg |-> Deref(f, entries[k])]]

Refs(idxs) == [k \in 1..Len(idxs) |-> Ref(idxs[k])]

NoFrame ==
    [objs |-> <<>>, indexed_messages1 |-> <<>>, message_tokens1 |-> <<>>,
     messages_per_step |-> <<>>, last_step_idx |-> 0, keep_idx |-> 0,
     messages_to_keep |-> <<>>, exceedance |-> 0, is_last_turn |-> FALSE,
     copied |-> TRUE]

RECURSIVE SplitLoop(_, _, _)
SplitLoop(msgs, idxs, steps) ==
    IF idxs = <<>> THEN steps
    ELSE LET i == Head(idxs)
             n == Len(steps)
             lastRole == IF n = 0 THEN "" ELSE msgs[steps[n][Len(steps[n])]].role
             appended == [steps EXCEPT ![n] = Append(@, i)]
             opened == Append(steps, <<i>>)
         IN IF msgs[i].role = FUNCTION THEN SplitLoop(msgs, Tail(idxs), appended)
            ELSE IF msgs[i].role = lastRole THEN SplitLoop(msgs, Tail(idxs), appended)
            ELSE SplitLoop(msgs, Tail(idxs), opened)

\* _split_turn_into_steps(indexed_messages): the turn's msg_idx grouped in steps
_split_turn_into_steps(msgs, idxs) == SplitLoop(msgs, idxs, <<>>)

TurnTokens(tokens, idxs) == SumSeq([k \in 1..Len(idxs) |-> tokens[idxs[k]]])

\* a copy that shares the Message objects of the list it is given: what is written
\* to them is written to the caller's messages
shallowcopy(msgs) == [objs |-> msgs, copied |-> FALSE]

\* copy.deepcopy(msgs): new Message objects, equal to those of the list
deepcopy(msgs) == [objs |-> msgs, copied |-> TRUE]

\* lines 139-144: the deep copies and the split into steps; objs are the copied
\* Message objects, which the strategies may write to
EnterTurn(msgs, tokens, idxs, exc, last) ==
    LET steps == _split_turn_into_steps(msgs, idxs)
        c == deepcopy(msgs)
    IN [objs |-> c.objs, indexed_messages1 |-> Refs(idxs), message_tokens1 |-> tokens,
        messages_per_step |-> steps, last_step_idx |-> steps[Len(steps)][1],
        keep_idx |-> 0, messages_to_keep |-> <<>>, exceedance |-> exc,
        is_last_turn |-> last, copied |-> c.copied]

\* lines 148-161: minimise function results
RECURSIVE Step1Loop(_, _)
Step1Loop(f, i) ==
    IF i > Len(f.indexed_messages1) THEN f
    ELSE LET e == f.indexed_messages1[i]
             msg == Deref(f, e)
             fn_tok == f.message_tokens1[e.idx]
         IN IF \/ f.exceedance <= 0
               \/ msg.role # FUNCTION
               \/ (f.is_last_turn /\ e.idx >= f.last_step_idx)
            THEN Step1Loop(f, i + 1)
            ELSE IF fn_tok > f.exceedance
            THEN [f EXCEPT !.indexed_messages1[i] =
                               Own(e.idx, _truncate_message(msg, fn_tok - f.exceedance)),
                           !.message_tokens1[e.idx] = fn_tok - f.exceedance,
                           !.exceedance = 0]
            ELSE Step1Loop([f EXCEPT !.objs[e.idx] = SetOmit(@),
                                     !.message_tokens1[e.idx] = 0,
                                     !.exceedance = @ - fn_tok], i + 1)

\* lines 167-178: remove middle steps
RECURSIVE Step2Loop(_, _)
Step2Loop(f, i) ==
    IF i >= Len(f.messages_per_step) THEN f
    ELSE LET step_tokens == TurnTokens(f.message_tokens1, f.messages_per_step[i])
             next == f.messages_per_step[i + 1][1]
         IN IF step_tokens >= f.exceedance
            THEN [f EXCEPT !.exceedance = 0, !.keep_idx = next]
            ELSE Step2Loop([f EXCEPT !.exceedance = @ - step_tokens, !.keep_idx = next], i + 1)

\* line 181: first step + [x for x in indexed_messages1 if x[0] >= keep_idx]
Step2Result(f) ==
    Refs(f.messages_per_step[1])
      \o SelectSeq(f.indexed_messages1, LAMBDA e : e.idx >= f.keep_idx)

\* lines 186-199: truncate the function results of the last step
RECURSIVE Step3Loop(_, _)
Step3Loop(f, k) ==
    LET last == f.messages_per_step[Len(f.messages_per_step)]
    IN IF k > Len(last) THEN f
       ELSE LET idx == last[k]
                msg == f.objs[idx]
                fn_tok == f.message_tokens1[idx]
            IN IF msg.role # FUNCTION
               THEN Step3Loop([f EXCEPT !.messages_to_keep = Append(@, Ref(idx))], k + 1)
               ELSE IF fn_tok > f.exceedance
               THEN Step3Loop([f EXCEPT !.messages_to_keep =
                                   Append(@, Own(idx, _truncate_message(msg, fn_tok - f.exceedance))),
                                        !.exceedance = 0], k + 1)
               ELSE Step3Loop([f EXCEPT !.objs[idx] = SetOmit(@),
                                        !.message_tokens1[idx] = 0,
                                        !.exceedance = @ - fn_tok,
                                        !.messages_to_keep = Append(@, Ref(idx))], k + 1)

\* lines 186-201
Step3Keep(f) ==
    LET g == Step3Loop(f, 1)
    IN [g EXCEPT !.messages_to_keep = Refs(f.messages_per_step[1]) \o @]

\* lines 207-216: truncate user/assistant content
RECURSIVE Step4Loop(_, _)
Step4Loop(f, i) ==
    IF i > Len(f.messages_to_keep) THEN f
    ELSE LET e == f.messages_to_keep[i]
             msg == Deref(f, e)
             fn_tok == f.message_tokens1[e.idx]
         IN IF fn_tok > f.exceedance
            THEN [f EXCEPT !.messages_to_keep[i] =
                               Own(e.idx, _truncate_message(msg, fn_tok - f.exceedance)),
                           !.exceedance = 0]
            ELSE IF e.own
            THEN Step4Loop([f EXCEPT !.messages_to_keep[i] = Own(e.idx, SetOmit(msg)),
                                     !.exceedance = @ - fn_tok], i + 1)
            ELSE Step4Loop([f EXCEPT !.objs[e.idx] = SetOmit(@),
                                     !.exceedance = @ - fn_tok], i + 1)

----------------------------------------------------------------------------
(* The calls explored: every conversation of at most MaxMsgs messages      *)
(* drawn from MessagePool, with every budget in 0..MaxBudget               *)

MessagePool ==
    {StrMessage(SYSTEM, Text(1)),
     StrMessage(USER, Text(0)),
     StrMessage(USER, Text(MaxTok)),
     ListMessage(USER, <<Text(MaxTok), <<>>>>),
     StrMessage(ASSISTANT, Text(MaxTok)),
     [StrMessage(ASSISTANT, Text(1)) EXCEPT !.fc = MaxTok],
     StrMessage(FUNCTION, Text(1)),
     StrMessage(FUNCTION, Text(MaxTok)),
     ListMessage(FUNCTION, <<Text(1), <<2>>>>)}

Conversations == UNION {[1..n -> MessagePool] : n \in 0..MaxMsgs}

\* no call of postprocess_stop_words
NoStopCall ==
    /\ in_messages = <<>>
    /\ stop = <<>>
    /\ spc = "idle"
    /\ local = <<>>
    /\ sret = <<>>

\* no call of the retry wrappers
NoRetryCall ==
    /\ max_retries = 0
    /\ outcomes = <<>>
    /\ jitters = <<>>
    /\ blocking = <<>>
    /\ streaming = <<>>

\* no call of BaseChatModel.chat
NoChatCall == chat = <<>> /\ cache = <<>>

\* no call of Storage.call
NoStorageCall == db = <<>> /\ ops = <<>>

\* no call of the agents
NoAgentCall == memo = <<>> /\ pdq = <<>>

NoAppCall == NoChatCall /\ NoStorageCall /\ NoAgentCall

Init ==
    /\ NoStopCall
    /\ NoRetryCall
    /\ NoAppCall
    /\ messages \in Conversations
    /\ max_tokens \in 0..MaxBudget
    /\ pc = "validate"
    /\ err = ""
    /\ ret = <<>>
    /\ available_token = 0
    /\ message_tokens = <<>>
    /\ turns = <<>>
    /\ it = 0
    /\ exceedance = 0
    /\ new_messages = <<>>
    /\ frame = NoFrame

----------------------------------------------------------------------------
(* truncate_input_messages_roughly *)

Indices(msgs) == 1..Len(msgs)

SystemCount(msgs) == Cardinality({i \in Indices(msgs) : msgs[i].role = SYSTEM})

NonSystem(msgs) == {i \in Indices(msgs) : msgs[i].role # SYSTEM}

\* a validation that looks at the first message only
StartsWithoutUserFirstOnly(msgs) == msgs[1].role \notin {SYSTEM, USER}

\* lines 33-46: the first message that is not a system message is not a user message
StartsWithoutUser(msgs) ==
    \E i \in NonSystem(msgs) :
        /\ msgs[i].role # USER
        /\ \A j \in NonSystem(msgs) : j >= i

Raise(e) ==
    /\ pc' = "done"
    /\ err' = e
    /\ ret' = <<>>

Return(entries) ==
    /\ pc' = "done"
    /\ err' = ""
    /\ ret' = entries

\* the caller's list itself
Unchanged(msgs) == [i \in 1..Len(msgs) |-> [idx |-> i, msg |-> msgs[i]]]

\* lines 24-46
Validate ==
    /\ pc = "validate"
    /\ IF SystemCount(messages) >= 2 THEN Raise("400 system")
       ELSE IF messages = <<>> THEN Return(Unchanged(messages))
       ELSE IF StartsWithoutUser(messages) THEN Raise("400 user")
       ELSE pc' = "count" /\ UNCHANGED <<err, ret>>
    /\ UNCHANGED <<messages, max_tokens, available_token, message_tokens, turns, it,
                   exceedance, new_messages, frame>>
    /\ UNCHANGED <<stopVars, retryVars, appVars>>

\* a budget from which the system message is not reserved
AvailableTokenNoReserve(msgs, max) == max

\* lines 49-57: max_tokens minus the tokens of the (last) system message
AvailableToken(msgs, max) ==
    IF SystemCount(msgs) = 0 THEN max
    ELSE LET i == CHOOSE i \in Indices(msgs) :
                      msgs[i].role = SYSTEM /\ \A j \in Indices(msgs) : msgs[j].role = SYSTEM => j <= i
         IN max - _count_tokens(msgs[i])

\* a first loop without its `continue`: the system message is counted as a turn message
MessageTokensCountingSystem(msgs) == [i \in 1..Len(msgs) |-> _count_tokens(msgs[i])]

\* lines 50, 59: message_tokens, 0 for the system message
MessageTokens(msgs) ==
    [i \in 1..Len(msgs) |-> IF msgs[i].role = SYSTEM THEN 0 ELSE _count_tokens(msgs[i])]

\* a first loop that does not put the system message in new_messages
SystemMessagesForgotten(msgs) == <<>>

\* lines 53-56: new_messages after the first loop
SystemMessages(msgs) ==
    SelectSeq(Unchanged(msgs), LAMBDA x : x.msg.role = SYSTEM)

RECURSIVE TurnsLoop(_, _, _)
TurnsLoop(msgs, i, acc) ==
    IF i > Len(msgs) THEN acc
    ELSE IF msgs[i].role = SYSTEM THEN TurnsLoop(msgs, i + 1, acc)
    ELSE IF msgs[i].role = USER THEN TurnsLoop(msgs, i + 1, Append(acc, <<i>>))
    ELSE TurnsLoop(msgs, i + 1, [acc EXCEPT ![Len(acc)] = Append(@, i)])

\* lines 51-62: indexed_messages_per_user
IndexedMessagesPerUser(msgs) == TurnsLoop(msgs, 1, <<>>)

AllTokens(msgs) == SumSeq(MessageTokens(msgs))

\* lines 48-67: the conversation fits
ReturnUnchanged ==
    /\ pc = "count"
    /\ AllTokens(messages) <= AvailableToken(messages, max_tokens)
    /\ Return(Unchanged(messages))
    /\ available_token' = AvailableToken(messages, max_tokens)
    /\ message_tokens' = MessageTokens(messages)
    /\ turns' = IndexedMessagesPerUser(messages)
    /\ new_messages' = SystemMessages(messages)
    /\ UNCHANGED <<messages, max_tokens, it, exceedance, frame>>
    /\ UNCHANGED <<stopVars, retryVars, appVars>>

\* lines 48-72: nothing is left of the budget after the system message
RaiseBudget ==
    /\ pc = "count"
    /\ AllTokens(messages) > AvailableToken(messages, max_tokens)
    /\ AvailableToken(messages, max_tokens) <= 0
    /\ Raise("400 budget")
    /\ available_token' = AvailableToken(messages, max_tokens)
    /\ message_tokens' = MessageTokens(messages)
    /\ turns' = IndexedMessagesPerUser(messages)
    /\ new_messages' = SystemMessages(messages)
    /\ UNCHANGED <<messages, max_tokens, it, exceedance, frame>>
    /\ UNCHANGED <<stopVars, retryVars, appVars>>

\* lines 48-74
BeginTruncation ==
    /\ pc = "count"
    /\ AllTokens(messages) > AvailableToken(messages, max_tokens)
    /\ AvailableToken(messages, max_tokens) > 0
    /\ pc' = "loop"
    /\ available_token' = AvailableToken(messages, max_tokens)
    /\ message_tokens' = MessageTokens(messages)
    /\ turns' = IndexedMessagesPerUser(messages)
    /\ new_messages' = SystemMessages(messages)
    /\ exceedance' = AllTokens(messages) - AvailableToken(messages, max_tokens)
    /\ it' = 1
    /\ UNCHANGED <<messages, max_tokens, err, ret, frame>>
    /\ UNCHANGED <<stopVars, retryVars, appVars>>

----------------------------------------------------------------------------
(* The loop over the turns, lines 75-90, and the calls of _truncate_turn *)

Turn == turns[it]

InLoop == pc = "loop" /\ it <= Len(turns)

\* a loop that drops the exceedance _truncate_turn returns
EndTurnKeepingExceedance(new_turn, exc) ==
    /\ pc' = "loop"
    /\ it' = it + 1
    /\ new_messages' = new_messages \o new_turn
    /\ frame' = NoFrame
    /\ UNCHANGED <<max_tokens, err, ret, available_token, message_tokens, turns,
                   exceedance>>

\* the turn is done: new_messages += new_turn, exceedance as returned
EndTurn(new_turn, exc) ==
    /\ pc' = "loop"
    /\ it' = it + 1
    /\ new_messages' = new_messages \o new_turn
    /\ exceedance' = exc
    /\ frame' = NoFrame
    /\ UNCHANGED <<max_tokens, err, ret, available_token, message_tokens, turns>>

\* the caller's messages once _truncate_turn has written to the objects of f
Caller(f) == IF f.copied THEN messages ELSE f.objs

\* _truncate_turn goes on with its next strategy
NextStep(label, f) ==
    /\ pc' = label
    /\ frame' = f
    /\ UNCHANGED <<max_tokens, err, ret, available_token, message_tokens, turns,
                   it, exceedance, new_messages>>

\* lines 77-78
KeepTurn ==
    /\ InLoop
    /\ exceedance <= 0
    /\ EndTurn([k \in 1..Len(Turn) |-> [idx |-> Turn[k], msg |-> messages[Turn[k]]]], exceedance)
    /\ messages' = messages
    /\ UNCHANGED <<stopVars, retryVars, appVars>>

\* lines 80-86, 127-131: the whole turn is dropped
DropTurn ==
    /\ InLoop
    /\ exceedance > 0
    /\ TurnTokens(message_tokens, Turn) <= exceedance
    /\ EndTurn(<<>>, exceedance - TurnTokens(message_tokens, Turn))
    /\ messages' = messages
    /\ UNCHANGED <<stopVars, retryVars, appVars>>

\* lines 133-137: a turn of one message
TruncateSingle ==
    /\ InLoop
    /\ exceedance > 0
    /\ TurnTokens(message_tokens, Turn) > exceedance
    /\ Len(Turn) = 1
    /\ IF it = Len(turns)
       THEN EndTurn(<<[idx |-> Turn[1],
                       msg |-> _truncate_message(messages[Turn[1]],
                                                 message_tokens[Turn[1]] - exceedance)]>>, 0)
       ELSE /\ Raise("AssertionError")
            /\ UNCHANGED <<max_tokens, available_token, message_tokens, turns, it,
                           exceedance, new_messages, frame>>
    /\ messages' = messages
    /\ UNCHANGED <<stopVars, retryVars, appVars>>

\* lines 139-163: strategy 1
Step1 ==
    /\ InLoop
    /\ exceedance > 0
    /\ TurnTokens(message_tokens, Turn) > exceedance
    /\ Len(Turn) > 1
    /\ LET f == Step1Loop(EnterTurn(messages, message_tokens, Turn, exceedance,
                                    it = Len(turns)), 1)
       IN /\ IF f.exceedance <= 0
             THEN EndTurn(Resolve(f, f.indexed_messages1), 0)
             ELSE NextStep("step2", f)
          /\ messages' = Caller(f)
    /\ UNCHANGED <<stopVars, retryVars, appVars>>

\* lines 165-182: strategy 2
Step2 ==
    /\ pc = "step2"
    /\ LET f == Step2Loop(frame, 2)
       IN /\ IF f.exceedance <= 0
             THEN EndTurn(Resolve(f, Step2Result(f)), 0)
             ELSE NextStep("step3", f)
          /\ messages' = Caller(f)
    /\ UNCHANGED <<stopVars, retryVars, appVars>>

\* lines 184-203: strategy 3
Step3 ==
    /\ pc = "step3"
    /\ LET f == Step3Keep(frame)
       IN /\ IF f.exceedance <= 0
             THEN EndTurn(Resolve(f, f.messages_to_keep), 0)
             ELSE NextStep("step4", f)
          /\ messages' = Caller(f)
    /\ UNCHANGED <<stopVars, retryVars, appVars>>

\* lines 205-218: strategy 4
Step4 ==
    /\ pc = "step4"
    /\ LET f == Step4Loop(frame, 1)
       IN /\ EndTurn(Resolve(f, f.messages_to_keep), 0)
          /\ messages' = Caller(f)
    /\ UNCHANGED <<stopVars, retryVars, appVars>>

\* line 90
ReturnNewMessages ==
    /\ pc = "loop"
    /\ it > Len(turns)
    /\ Return(new_messages)
    /\ UNCHANGED <<messages, max_tokens, available_token, message_tokens, turns, it,
                   exceedance, new_messages, frame>>
    /\ UNCHANGED <<stopVars, retryVars, appVars>>

Next ==
    \/ Validate
    \/ ReturnUnchanged
    \/ RaiseBudget
    \/ BeginTruncation
    \/ KeepTurn
    \/ DropTurn
    \/ TruncateSingle
    \/ Step1
    \/ Step2
    \/ Step3
    \/ Step4
    \/ ReturnNewMessages

Spec == Init /\ [][Next]_vars

----------------------------------------------------------------------------
(* postprocess_stop_words (postprocessing.py).  A text and a stop word are *)
(* sequences of tokens; a content part is a text or an image.              *)

\* the longest text and stop word explored, in tokens
MaxLen == 3

\* the longest list of multi-part messages explored
MaxStopMsgs == 2

Chars == {1, 2}

Strings(n) == UNION {[1..k -> Chars] : k \in 0..n}

\* ContentItem(text=t)
TextItem(t) == [type |-> "text", value |-> t]

\* ContentItem(image=..)
ImageItem == [type |-> "image", value |-> <<>>]

\* Message(role=ASSISTANT, content=[...])
OutMessage(content) == [role |-> ASSISTANT, content |-> content]

\* text.find(s): the index (from 0) of the first occurrence of s in text, -1 if none
Find(text, s) ==
    LET at == {k \in 0..(Len(text) - Len(s)) : SubSeq(text, k + 1, k + Len(s)) = s}
    IN IF at = {} THEN -1 ELSE CHOOSE k \in at : \A j \in at : k <= j

\* an endswith that compares the last token only
EndsWithLastToken(text, s) ==
    /\ Len(s) <= Len(text)
    /\ s # <<>>
    /\ text[Len(text)] = s[Len(s)]

\* text.endswith(s)
EndsWith(text, s) ==
    /\ Len(s) <= Len(text)
    /\ SubSeq(text, Len(text) - Len(s) + 1, Len(text)) = s

RECURSIVE StopWordLoop(_, _, _)
StopWordLoop(text, stops, truncated) ==
    IF stops = <<>> THEN [truncated |-> truncated, text |-> text]
    ELSE LET k == Find(text, Head(stops))
         IN IF k >= 0
            THEN StopWordLoop(SubSeq(text, 1, k), Tail(stops), TRUE)
            ELSE StopWordLoop(text, Tail(stops), truncated)

\* lines 67-74: each stop word in turn is searched in the text as cut so far
_truncate_at_stop_word(text, stops) == StopWordLoop(text, stops, FALSE)

\* lines 31-40: the content parts of one message, up to the first text part that
\* holds a stop word
RECURSIVE ContentLoop(_, _, _)
ContentLoop(content, stops, trunc_content) ==
    IF content = <<>> THEN [truncated |-> FALSE, content |-> trunc_content]
    ELSE LET item == Head(content)
             r == _truncate_at_stop_word(item.value, stops)
         IN IF item.type # "text"
            THEN ContentLoop(Tail(content), stops, Append(trunc_content, item))
            ELSE IF r.truncated
            THEN [truncated |-> TRUE, content |-> Append(trunc_content, TextItem(r.text))]
            ELSE ContentLoop(Tail(content), stops, Append(trunc_content, TextItem(r.text)))

\* the order of Python strings: the first differing token decides, a proper prefix
\* comes first
RECURSIVE StrLess(_, _)
StrLess(a, b) ==
    IF b = <<>> THEN FALSE
    ELSE IF a = <<>> THEN TRUE
    ELSE IF Head(a) # Head(b) THEN Head(a) < Head(b)
    ELSE StrLess(Tail(a), Tail(b))

\* sorted(S)
RECURSIVE Sorted(_)
Sorted(S) ==
    IF S = {} THEN <<>>
    ELSE LET m == CHOOSE x \in S : \A y \in S \ {x} : StrLess(x, y)
         IN <<m>> \o Sorted(S \ {m})

\* tokenizer.convert_tokens_to_string(tokenizer.tokenize(s)[:-1])
PartialForm(s) == SubSeq(s, 1, Len(s) - 1)

\* lines 47-52: the non-empty partial forms of the stop words, sorted, without repeats
PartialStop(stops) ==
    Sorted({PartialForm(stops[k]) : k \in 1..Len(stops)} \ {<<>>})

\* lines 59-61: every matching partial form cuts the text as it was found (item_text),
\* so the last one that matches decides
RECURSIVE StripLoop(_, _, _)
StripLoop(item_text, partial_stop, text) ==
    IF partial_stop = <<>> THEN text
    ELSE LET s == Head(partial_stop)
         IN IF EndsWith(item_text, s)
            THEN StripLoop(item_text, Tail(partial_stop),
                           SubSeq(item_text, 1, Len(item_text) - Len(s)))
            ELSE StripLoop(item_text, Tail(partial_stop), text)

\* the position of the last text part of a content, 0 if it has none
LastText(content) ==
    LET at == {i \in 1..Len(content) : content[i].type = "text"}
    IN IF at = {} THEN 0 ELSE CHOOSE i \in at : \A j \in at : j <= i

\* lines 54-62: the content of the last message after the partial stop words are cut
StripPartial(content, partial_stop) ==
    LET i == LastText(content)
    IN IF i = 0 THEN content
       ELSE [content EXCEPT ![i].value = StripLoop(@, partial_stop, @)]

\* lines 24, 29: messages = copy.deepcopy(messages); trunc_messages = []
StopLocals(msgs) ==
    LET c == deepcopy(msgs)
    IN [objs |-> c.objs, copied |-> c.copied, i |-> 1, trunc |-> 0]

\* the caller's messages once the call has written to the objects of l
StopCaller(l) == IF l.copied THEN in_messages ELSE l.objs

\* no call of truncate_input_messages_roughly
NoTruncCall ==
    /\ messages = <<>>
    /\ max_tokens = 0
    /\ pc = "idle"
    /\ err = ""
    /\ ret = <<>>
    /\ available_token = 0
    /\ message_tokens = <<>>
    /\ turns = <<>>
    /\ it = 0
    /\ exceedance = 0
    /\ new_messages = <<>>
    /\ frame = NoFrame

StopWords == Strings(MaxLen) \ {<<>>}

\* every list of at most two stop words
StopLists ==
    {<<>>} \cup {<<a>> : a \in StopWords} \cup {<<a, b>> : a, b \in StopWords}

\* one message of one text part, with every text
OneText == {<<OutMessage(<<TextItem(t)>>)>> : t \in Strings(MaxLen)}

PartPool == {TextItem(<<>>), TextItem(<<1>>), TextItem(<<1, 2>>), TextItem(<<2, 1>>), ImageItem}

ContentPool == {<<>>} \cup {<<p>> : p \in PartPool} \cup {<<p, q>> : p, q \in PartPool}

\* the lists of messages of up to two parts each
OutConversations == UNION {[1..n -> {OutMessage(c) : c \in ContentPool}] : n \in 0..MaxStopMsgs}

StopPool == {<<>>, <<<<2>>>>, <<<<1, 2>>>>, <<<<2, 1>>, <<2>>>>, <<<<1, 1>>, <<2, 2>>>>}

\* the calls explored: one text with every list of stop words, and every list of
\* messages with the stop lists of StopPool
InitStop ==
    /\ NoTruncCall
    /\ NoRetryCall
    /\ NoAppCall
    /\ \/ in_messages \in OneText /\ stop \in StopLists
       \/ in_messages \in OutConversations /\ stop \in StopPool
    /\ spc = "copy"
    /\ local = <<>>
    /\ sret = <<>>

\* lines 24-29
StopCopy ==
    /\ spc = "copy"
    /\ local' = StopLocals(in_messages)
    /\ IF in_messages = <<>> THEN spc' = "done" ELSE spc' = "scan"
    /\ UNCHANGED <<in_messages, stop, sret, truncVars, retryVars, appVars>>

\* a loop over the messages that does not stop at the message holding a stop word
StopScanNoBreak ==
    /\ spc = "scan"
    /\ LET r == ContentLoop(local.objs[local.i].content, stop, <<>>)
           l == [local EXCEPT !.objs[local.i].content = r.content, !.trunc = local.i]
       IN /\ IF local.i = Len(local.objs)
             THEN spc' = "partial" /\ local' = l
             ELSE spc' = "scan" /\ local' = [l EXCEPT !.i = @ + 1]
          /\ in_messages' = StopCaller(l)
    /\ UNCHANGED <<stop, sret, truncVars, retryVars, appVars>>

\* lines 30-43: one message of the loop
StopScan ==
    /\ spc = "scan"
    /\ LET r == ContentLoop(local.objs[local.i].content, stop, <<>>)
           l == [local EXCEPT !.objs[local.i].content = r.content, !.trunc = local.i]
       IN /\ IF r.truncated \/ local.i = Len(local.objs)
             THEN spc' = "partial" /\ local' = l
             ELSE spc' = "scan" /\ local' = [l EXCEPT !.i = @ + 1]
          /\ in_messages' = StopCaller(l)
    /\ UNCHANGED <<stop, sret, truncVars, retryVars, appVars>>

\* lines 44-64: the partial stop words are cut from the last text part of the last
\* message kept, and the list is returned
StopReturn ==
    /\ spc = "partial"
    /\ LET n == local.trunc
           l == [local EXCEPT !.objs[n].content = StripPartial(@, PartialStop(stop))]
       IN /\ local' = l
          /\ sret' = SubSeq(l.objs, 1, n)
          /\ in_messages' = StopCaller(l)
    /\ spc' = "done"
    /\ UNCHANGED <<stop, truncVars, retryVars, appVars>>

NextStop ==
    \/ StopCopy
    \/ StopScan
    \/ StopReturn

SpecStop == InitStop /\ [][NextStop]_vars

\* one call of either function
InitCalls == Init \/ InitStop

NextCalls == Next \/ NextStop

SpecCalls == InitCalls /\ [][NextCalls]_vars

----------------------------------------------------------------------------
(* retry_model_service and retry_model_service_iterator (retry.py).  An    *)
(* attempt is one invocation of fn / it_fn; what attempt k does is         *)
(* outcomes[k], chosen when the first of the two calls makes its k-th      *)
(* attempt.  An error is a record of its class, its code and the phrases   *)
(* that str(e) contains.                                                   *)

\* the largest max_retries explored
MaxRetries == 2

\* the most values one attempt of it_fn yields
MaxYield == 2

NoError == [class |-> "", code |-> "", says |-> {}]

\* ModelServiceError(code=.., message=..), or ModelServiceError(exception=..) for code "None"
ModelServiceError(code, says) == [class |-> "ModelServiceError", code |-> code, says |-> says]

\* an exception of fn that is no ModelServiceError
OtherException == [class |-> "Exception", code |-> "None", says |-> {}]

\* line 69: ModelServiceError(exception=Exception('Maximum number of retries (n) exceeded.'))
MaxRetriesExceeded == ModelServiceError("None", {"Maximum number of retries"})

ErrorPool ==
    {ModelServiceError("400", {}),
     ModelServiceError("DataInspectionFailed", {}),
     ModelServiceError("500", {"inappropriate content"}),
     ModelServiceError("None", {"maximum context length"}),
     ModelServiceError("500", {}),
     ModelServiceError("None", {}),
     OtherException}

Ok == [kind |-> "ok", error |-> NoError]

Raises(e) == [kind |-> "raise", error |-> e]

OutcomePool == {Ok} \cup {Raises(e) : e \in ErrorPool}

\* a max_retries test that lets a call without retries classify its error
NoRetriesNever(max) == FALSE

\* line 53
NoRetries(max) == max <= 0

\* a classification by the code alone
IsFatalByCode(e) == e.code = "400" \/ e.code = "DataInspectionFailed"

\* lines 57-63
IsFatal(e) ==
    \/ e.code = "400"
    \/ e.code = "DataInspectionFailed"
    \/ "inappropriate content" \in e.says
    \/ "maximum context length" \in e.says

\* a test that allows one retry more
ExhaustedLate(num_retries, max) == num_retries > max

\* line 68
Exhausted(num_retries, max) == num_retries >= max

\* lines 42-75: the error to raise, or the counter after the sleep
_raise_or_delay(e, num_retries, max) ==
    IF NoRetries(max) THEN [raise |-> TRUE, error |-> e, num_retries |-> num_retries]
    ELSE IF IsFatal(e) THEN [raise |-> TRUE, error |-> e, num_retries |-> num_retries]
    ELSE IF Exhausted(num_retries, max)
    THEN [raise |-> TRUE, error |-> MaxRetriesExceeded, num_retries |-> num_retries]
    ELSE [raise |-> FALSE, error |-> NoError, num_retries |-> num_retries + 1]

NoResult == [kind |-> "", error |-> NoError, value |-> 0]

\* the call returned (the value of) attempt k
Returns(k) == [kind |-> "return", error |-> NoError, value |-> k]

\* the call raised e
Raised(e) == [kind |-> "raise", error |-> e, value |-> 0]

\* line 47: max_delay, in the time unit of the delay
max_delay == 300

\* line 48
exponential_base == 2

\* line 72: 1.0 + random.random(), a factor in [1.0, 2.0), here 2/2 or 3/2
Jitters == {[num |-> 2, den |-> 2], [num |-> 3, den |-> 2]}

Min(a, b) == IF a <= b THEN a ELSE b

\* line 73: delay = min(delay * exponential_base, max_delay) * jitter
NextDelay(delay, jitter) ==
    (Min(delay * exponential_base, max_delay) * jitter.num) \div jitter.den

\* lines 17, 33: num_retries, delay = 0, 1.0
NewCall ==
    [pc |-> "call", num_retries |-> 0, delay |-> 1, attempts |-> 0, sleeps |-> 0,
     result |-> NoResult, log |-> <<>>, slept |-> <<>>, pos |-> 0, yields |-> 0,
     out |-> <<>>, produced |-> <<>>]

\* the calls explored: every max_retries in -1..MaxRetries
InitRetry ==
    /\ NoTruncCall
    /\ NoStopCall
    /\ NoAppCall
    /\ max_retries \in -1..MaxRetries
    /\ outcomes = <<>>
    /\ jitters = <<>>
    /\ blocking = NewCall
    /\ streaming = NewCall

\* attempt k does o: as the other call saw it, or chosen now
Attempt(k, o) ==
    /\ k <= MaxRetries + 2
    /\ o \in OutcomePool
    /\ IF k <= Len(outcomes)
       THEN o = outcomes[k] /\ UNCHANGED outcomes
       ELSE outcomes' = Append(outcomes, o)

\* lines 21-22, 38-39: the except clause, for an attempt of call w that raised e
\* with the counter at n
Except(w, e, n) ==
    IF e.class # "ModelServiceError" THEN [w EXCEPT !.pc = "done", !.result = Raised(e)]
    ELSE LET r == _raise_or_delay(e, n, max_retries)
         IN IF r.raise THEN [w EXCEPT !.pc = "done", !.result = Raised(r.error)]
            ELSE [w EXCEPT !.pc = "sleep", !.num_retries = r.num_retries]

\* lines 72-75: the delay is drawn, time.sleep(delay) returns and the delay is handed
\* back to the wrapper
Slept(w, jitter) ==
    LET d == NextDelay(w.delay, jitter)
    IN [w EXCEPT !.pc = "call", !.delay = d, !.sleeps = @ + 1,
                 !.log = Append(@, "sleep"), !.slept = Append(@, d)]

\* line 72: the k-th sleep draws jitter, as the other call drew it, or chosen now
Draw(k, jitter) ==
    IF k <= Len(jitters)
    THEN jitter = jitters[k] /\ UNCHANGED jitters
    ELSE jitters' = Append(jitters, jitter)

\* lines 18-22: one attempt fn() of retry_model_service
BlockingCall ==
    /\ blocking.pc = "call"
    /\ \E o \in OutcomePool :
           LET k == blocking.attempts + 1
               w == [blocking EXCEPT !.attempts = k, !.log = Append(@, "call")]
           IN /\ Attempt(k, o)
              /\ IF o.kind = "ok"
                 THEN blocking' = [w EXCEPT !.pc = "done", !.result = Returns(k)]
                 ELSE blocking' = Except(w, o.error, w.num_retries)
    /\ UNCHANGED <<max_retries, jitters, streaming, truncVars, stopVars, appVars>>

BlockingSleep ==
    /\ blocking.pc = "sleep"
    /\ \E jitter \in Jitters :
           /\ Draw(blocking.sleeps + 1, jitter)
           /\ blocking' = Slept(blocking, jitter)
    /\ UNCHANGED <<max_retries, outcomes, streaming, truncVars, stopVars, appVars>>

\* line 35: it_fn() is called; the attempt will yield y values before it ends
StreamCall ==
    /\ blocking.pc = "done"
    /\ streaming.pc = "call"
    /\ \E o \in OutcomePool, y \in 0..MaxYield :
           LET k == streaming.attempts + 1
           IN /\ Attempt(k, o)
              /\ streaming' = [streaming EXCEPT !.pc = "stream", !.attempts = k,
                                                !.log = Append(@, "call"),
                                                !.pos = 0, !.yields = y,
                                                !.produced = Append(@, 0)]
    /\ UNCHANGED <<max_retries, jitters, blocking, truncVars, stopVars, appVars>>

\* a counter that starts again once the attempt has yielded a value
StreamRetriesReset(w) == IF w.pos > 0 THEN 0 ELSE w.num_retries

\* line 39: the num_retries given to _raise_or_delay
StreamRetries(w) == w.num_retries

\* a wrapper that hands over the values of the running attempt only
ForwardLastAttempt(w, v) == IF w.pos = 0 THEN <<v>> ELSE Append(w.out, v)

\* lines 35-36: yield rsp
Forward(w, v) == Append(w.out, v)

\* lines 35-36: the attempt produces its next value, which is yielded to the consumer
StreamYield ==
    /\ streaming.pc = "stream"
    /\ streaming.pos < streaming.yields
    /\ LET k == streaming.attempts
           v == <<k, streaming.pos + 1>>
       IN streaming' = [streaming EXCEPT !.pos = @ + 1,
                                         !.out = Forward(streaming, v),
                                         !.produced[k] = @ + 1]
    /\ UNCHANGED <<max_retries, outcomes, jitters, blocking, truncVars, stopVars, appVars>>

\* lines 35-39: the attempt ends, by exhaustion (break) or by an exception
StreamEnd ==
    /\ streaming.pc = "stream"
    /\ streaming.pos = streaming.yields
    /\ LET k == streaming.attempts
           o == outcomes[k]
       IN IF o.kind = "ok"
          THEN streaming' = [streaming EXCEPT !.pc = "done", !.result = Returns(k)]
          ELSE streaming' = Except(streaming, o.error, StreamRetries(streaming))
    /\ UNCHANGED <<max_retries, outcomes, jitters, blocking, truncVars, stopVars, appVars>>

StreamSleep ==
    /\ streaming.pc = "sleep"
    /\ \E jitter \in Jitters :
           /\ Draw(streaming.sleeps + 1, jitter)
           /\ streaming' = Slept(streaming, jitter)
    /\ UNCHANGED <<max_retries, outcomes, blocking, truncVars, stopVars, appVars>>

NextRetry ==
    \/ BlockingCall
    \/ BlockingSleep
    \/ StreamCall
    \/ StreamYield
    \/ StreamEnd
    \/ StreamSleep

SpecRetry == InitRetry /\ [][NextRetry]_vars

----------------------------------------------------------------------------
(* Vocabulary of the properties *)

Returned == pc = "done" /\ err = ""

\* the messages of the returned list
Result == [k \in 1..Len(ret) |-> ret[k].msg]

\* the token counter applied to every message of a list, as it stands
Tokens(msgs) == SumSeq([k \in 1..Len(msgs) |-> _count_tokens(msgs[k])])

TwoSystems(msgs) ==
    \E i, j \in 1..Len(msgs) : i < j /\ msgs[i].role = SYSTEM /\ msgs[j].role = SYSTEM

FirstNonSystemIsUser(msgs) ==
    \A i \in 1..Len(msgs) :
        (msgs[i].role # SYSTEM /\ \A j \in 1..(i - 1) : msgs[j].role = SYSTEM)
            => msgs[i].role = USER

\* what the validation of the code accepts
PassesValidation(msgs) == ~TwoSystems(msgs) /\ FirstNonSystemIsUser(msgs)

SystemFirst(msgs) == msgs # <<>> /\ msgs[1].role = SYSTEM

\* a conversation as the data model has it: a system message only in front
WellFormed(msgs) ==
    /\ FirstNonSystemIsUser(msgs)
    /\ \A i \in 2..Len(msgs) : msgs[i].role # SYSTEM

HasCall(msg) == msg.role = ASSISTANT /\ msg.fc > 0

\* every tool call is followed by its tool-result, every tool-result follows its call
Paired(msgs) ==
    \A i \in 1..Len(msgs) :
        /\ HasCall(msgs[i]) => (i < Len(msgs) /\ msgs[i + 1].role = FUNCTION)
        /\ msgs[i].role = FUNCTION => (i > 1 /\ HasCall(msgs[i - 1]))

NoNone == \A k \in 1..Len(ret) : ret[k].msg # NoneMsg

IsUnchanged ==
    /\ Len(ret) = Len(messages)
    /\ \A k \in 1..Len(ret) : ret[k].idx = k /\ ret[k].msg = messages[k]

\* tokens of the system messages, and what the budget leaves after them
SystemTokens == Tokens(SelectSeq(messages, LAMBDA m : m.role = SYSTEM))

OtherTokens == Tokens(SelectSeq(messages, LAMBDA m : m.role # SYSTEM))

Available == max_tokens - SystemTokens

\* the turns of the input, as sequences of input positions
InputTurns == IndexedMessagesPerUser(messages)

InTurn(t, i) == \E k \in 1..Len(t) : t[k] = i

Absent(t) == \A k \in 1..Len(ret) : ~InTurn(t, ret[k].idx)

Verbatim(t) ==
    SelectSeq(ret, LAMBDA x : InTurn(t, x.idx))
        = [k \in 1..Len(t) |-> [idx |-> t[k], msg |-> messages[t[k]]]]

----------------------------------------------------------------------------
(* C1 - Budget satisfaction: whenever a call on a conversation that passes *)
(* validation returns, the token counts of the returned messages, each     *)
(* counted with the content it is returned with ('omit' included), sum to  *)
(* at most max_tokens.  Stated for well-formed, paired conversations and   *)
(* results without a None entry.                                           *)
C1_BudgetSatisfied ==
    (Returned /\ WellFormed(messages) /\ Paired(messages) /\ NoNone)
        => Tokens(Result) <= max_tokens

(* C2 - No-op fast path: if the token counts of all messages, system      *)
(* message included, sum to at most max_tokens, the call returns the input *)
(* exactly: same messages, same order, same contents.                      *)
C2_FastPathReturnsInput ==
    (pc = "done" /\ PassesValidation(messages) /\ Tokens(messages) <= max_tokens)
        => (Returned /\ IsUnchanged)

C2_Witness ==
    /\ Returned
    /\ SystemFirst(messages)
    /\ Len(messages) >= 3
    /\ Tokens(messages) = max_tokens
    /\ IsUnchanged

(* C3 as stated - System preservation: if messages[0] is a system message, *)
(* then for any max_tokens >= its token count the call returns a list      *)
(* whose first element is that system message, unchanged.                  *)
C3_SystemPreservedAsStated ==
    (pc = "done" /\ WellFormed(messages) /\ SystemFirst(messages)
       /\ max_tokens >= _count_tokens(messages[1]))
        => (Returned /\ ret # <<>> /\ ret[1].idx = 1 /\ ret[1].msg = messages[1])

(* C3 as amended: if messages[0] is a system message, every list the call *)
(* returns starts with that system message, unchanged; with max_tokens     *)
(* equal to its token count and other messages that count at least one     *)
(* token the call raises the budget error and returns no list.             *)
C3_SystemPreserved ==
    /\ (Returned /\ SystemFirst(messages))
        => (ret # <<>> /\ ret[1].idx = 1 /\ ret[1].msg = messages[1])
    /\ (pc = "done" /\ WellFormed(messages) /\ SystemFirst(messages)
          /\ max_tokens = _count_tokens(messages[1]) /\ OtherTokens > 0)
        => err = "400 budget"

C3_Witness ==
    /\ Returned
    /\ SystemFirst(messages)
    /\ Len(ret) < Len(messages)
    /\ \E k \in 2..Len(ret) : ret[k].msg # messages[ret[k].idx]
    /\ ret[1].msg = messages[1]

(* C4 - Tool-call pairing is preserved: if in the input every assistant    *)
(* tool call is followed by its tool-result, then in the result every      *)
(* tool-result is still preceded by an assistant message that carries its  *)
(* call and every call is still followed by its tool-result.               *)
C4_PairingPreserved ==
    (Returned /\ WellFormed(messages) /\ Paired(messages) /\ NoNone)
        => Paired(Result)

(* C5 - Oldest-first sacrifice, first part: in every result there is a     *)
(* turn k such that every older turn is absent from the result and every   *)
(* newer turn is returned verbatim.                                        *)
C5_OneSacrificedTurn ==
    (Returned /\ PassesValidation(messages) /\ InputTurns # <<>>)
        => \E k \in 1..Len(InputTurns) :
               /\ \A t \in 1..(k - 1) : Absent(InputTurns[t])
               /\ \A t \in (k + 1)..Len(InputTurns) : Verbatim(InputTurns[t])

\* two turns A (older) and B (newer), and a budget that fits B but not both
FitsExactlyOne ==
    /\ Len(InputTurns) = 2
    /\ TurnTokens(MessageTokens(messages), InputTurns[2]) > 0
    /\ TurnTokens(MessageTokens(messages), InputTurns[2]) <= Available
    /\ OtherTokens > Available

(* C5 as stated: the first part, and with an older turn A, a newer turn B  *)
(* and a budget that fits exactly one of them, B is kept and A is dropped. *)
C5_OldestFirstAsStated ==
    /\ C5_OneSacrificedTurn
    /\ (Returned /\ WellFormed(messages) /\ Paired(messages) /\ NoNone /\ FitsExactlyOne)
        => (Verbatim(InputTurns[2]) /\ Absent(InputTurns[1]))

(* C5 as amended: the first part, and with an older turn A, a newer turn B *)
(* and a budget that fits B but not both, B is returned verbatim and A is  *)
(* the turn that pays: it is dropped when its tokens do not exceed the     *)
(* exceedance, and otherwise it stays in the result in reduced form.       *)
C5_OldestFirst ==
    /\ C5_OneSacrificedTurn
    /\ (Returned /\ PassesValidation(messages) /\ FitsExactlyOne)
        => /\ Verbatim(InputTurns[2])
           /\ Absent(InputTurns[1])
                <=> TurnTokens(MessageTokens(messages), InputTurns[1])
                        <= OtherTokens - Available
           /\ ~Verbatim(InputTurns[1])

C5_Witness ==
    /\ Returned
    /\ Len(InputTurns) = 3
    /\ Absent(InputTurns[1])
    /\ ~Absent(InputTurns[2]) /\ ~Verbatim(InputTurns[2])
    /\ Verbatim(InputTurns[3])

(* C6 - Shape validation precedes budgeting: a conversation with two or    *)
(* more system messages, or whose first non-system message is not a user   *)
(* message, never gets past validation: the call raises the error with     *)
(* code '400' and returns no list, also when the conversation fits.        *)
C6_ValidationFirst ==
    (TwoSystems(messages) \/ ~FirstNonSystemIsUser(messages))
        => /\ pc \in {"validate", "done"}
           /\ pc = "done" => (err \in {"400 system", "400 user"} /\ ret = <<>>)

C6_Witness ==
    /\ pc = "done"
    /\ ~TwoSystems(messages) /\ ~FirstNonSystemIsUser(messages)
    /\ Tokens(messages) <= max_tokens
    /\ err = "400 user"

(* C7 - A conversation with exactly one system message that is not the     *)
(* first message is rejected with the invalid-input error, for every       *)
(* max_tokens: the call raises, it never returns a list.                   *)
C7_MisplacedSystemRejected ==
    (pc = "done" /\ ~TwoSystems(messages)
       /\ \E i \in 2..Len(messages) : messages[i].role = SYSTEM)
        => err # ""

(* C8 as stated - Budget exhausted by the system message: whenever         *)
(* max_tokens minus the tokens of the system message is <= 0 the call      *)
(* raises the budget error, whatever the other messages are.               *)
C8_BudgetErrorAsStated ==
    (pc = "done" /\ PassesValidation(messages) /\ SystemFirst(messages) /\ Available <= 0)
        => err = "400 budget"

(* C8 as amended: whenever max_tokens minus the tokens of the system       *)
(* message is <= 0 and the conversation passes validation, the call raises *)
(* the budget error and returns no list if the other messages count more   *)
(* tokens than that difference, and returns the input unchanged if they do *)
(* not (the difference is 0 and they count no token, or there are none).   *)
C8_BudgetError ==
    (pc = "done" /\ PassesValidation(messages) /\ Available <= 0)
        => IF OtherTokens > Available
           THEN err = "400 budget" /\ ret = <<>>
           ELSE Returned /\ IsUnchanged

C8_Witness ==
    /\ pc = "done"
    /\ SystemFirst(messages)
    /\ Len(messages) >= 2
    /\ Available <= 0
    /\ err = "400 budget"

(* C9 - Well-formed result: every element of the returned list is a        *)
(* message, never a None entry.                                            *)
C9_NoNoneEntry == Returned => NoNone

(* C10 - Order preservation: the messages of the result come from input    *)
(* positions in strictly increasing order.  Stated for conversations whose *)
(* system message, if any, is in front.                                    *)
C10_OrderPreserved ==
    (Returned /\ WellFormed(messages))
        => \A k, l \in 1..Len(ret) : k < l => ret[k].idx < ret[l].idx

----------------------------------------------------------------------------
(* Vocabulary of the claims on postprocess_stop_words *)

\* the stop words that occur in a text
Occurring(text) == {k \in 1..Len(stop) : Find(text, stop[k]) >= 0}

\* text[:k] for the least index k at which a stop word occurs in the text
EarliestCut(text) ==
    IF Occurring(text) = {} THEN text
    ELSE LET k == CHOOSE k \in Occurring(text) :
                      \A j \in Occurring(text) : Find(text, stop[k]) <= Find(text, stop[j])
         IN SubSeq(text, 1, Find(text, stop[k]))

TextParts(msg) == {j \in 1..Len(msg.content) : msg.content[j].type = "text"}

StopParts(msg) == {j \in TextParts(msg) : Occurring(msg.content[j].value) # {}}

HasStop(msg) == StopParts(msg) # {}

Least(S) == CHOOSE x \in S : \A y \in S : x <= y

\* the first message that holds a stop word, 0 if there is none
FirstWithStop ==
    LET at == {i \in 1..Len(in_messages) : HasStop(in_messages[i])}
    IN IF at = {} THEN 0 ELSE Least(at)

NoStopAnywhere == FirstWithStop = 0

\* a stop word without its last token
Front(s) == [i \in 1..(Len(s) - 1) |-> s[i]]

Partials == {Front(stop[k]) : k \in 1..Len(stop)} \ {<<>>}

IsSuffix(p, text) == \E k \in 0..Len(text) : SubSeq(text, k + 1, Len(text)) = p

MatchingPartials(text) == {p \in Partials : IsSuffix(p, text)}

\* the text without the longest partial form that ends it
WithoutLongestPartial(text) ==
    IF MatchingPartials(text) = {} THEN text
    ELSE LET p == CHOOSE p \in MatchingPartials(text) :
                      \A q \in MatchingPartials(text) : Len(q) <= Len(p)
         IN SubSeq(text, 1, Len(text) - Len(p))

\* no partial form ends the last text part of the last message
NoPartialAtEnd ==
    \/ in_messages = <<>>
    \/ LET c == in_messages[Len(in_messages)].content
       IN \A j \in TextParts(in_messages[Len(in_messages)]) :
              (\A i \in TextParts(in_messages[Len(in_messages)]) : i <= j)
                  => MatchingPartials(c[j].value) = {}

----------------------------------------------------------------------------
(* C11 - Inputs are never mutated: no step of truncate_input_messages_     *)
(* roughly or of postprocess_stop_words changes the caller's message list  *)
(* or a message in it, so that they are, when the call returns or raises,  *)
(* what they were before the call.                                         *)
C11_InputsNotMutated == [][messages' = messages /\ in_messages' = in_messages]_vars

\* a returned list that holds a message replaced by 'omit', from a strategy of
\* _truncate_turn that wrote to the message
C11_Witness ==
    /\ Returned
    /\ \E k \in 1..Len(ret) :
           /\ ret[k].msg.parts = <<OMIT>>
           /\ messages[ret[k].idx].parts # <<OMIT>>
           /\ messages[ret[k].idx].role = FUNCTION

(* C12 - Earliest stop word wins: once the messages are scanned, every     *)
(* text part kept is text[:k] of the text the caller gave, k being the     *)
(* least index at which any stop word occurs in that text (the whole text  *)
(* if none occurs).                                                        *)
C12_EarliestStopWord ==
    spc = "partial" =>
        \A n \in 1..local.trunc : \A j \in 1..Len(local.objs[n].content) :
            local.objs[n].content[j].type = "text"
                => local.objs[n].content[j].value = EarliestCut(in_messages[n].content[j].value)

(* C13 - The result is the prefix of the input list that ends at the first *)
(* message holding a stop word (the whole list if there is none): the      *)
(* messages before it are returned unchanged, in it the parts before the   *)
(* first text part holding a stop word are unchanged, that part is the     *)
(* last one, and every later message is dropped.                           *)
C13_PrefixUpToStop ==
    spc = "done" =>
        LET f == FirstWithStop
        IN IF f = 0 THEN Len(sret) = Len(in_messages)
           ELSE LET j == Least(StopParts(in_messages[f]))
                IN /\ Len(sret) = f
                   /\ \A i \in 1..(f - 1) : sret[i] = in_messages[i]
                   /\ sret[f].role = in_messages[f].role
                   /\ Len(sret[f].content) = j
                   /\ \A p \in 1..(j - 1) : sret[f].content[p] = in_messages[f].content[p]
                   /\ sret[f].content[j].type = "text"

\* a stop word in the first part of the first of two messages: a part and a message
\* are dropped
C13_Witness ==
    /\ spc = "done"
    /\ Len(in_messages) > 1
    /\ FirstWithStop = 1
    /\ Len(in_messages[1].content) > 1
    /\ Len(sret) = 1
    /\ Len(sret[1].content) = 1

(* C14 as stated - if no stop word occurs in any text part of any message, *)
(* the messages returned equal the input.                                  *)
C14_NoStopUnchangedAsStated ==
    (spc = "done" /\ NoStopAnywhere) => sret = in_messages

(* C14 - if no stop word occurs in any text part of any message, and no    *)
(* stop word without its last token ends the last text part of the last    *)
(* message (as when the stop list is empty), the messages returned equal   *)
(* the input.                                                              *)
C14_NoStopUnchanged ==
    (spc = "done" /\ NoStopAnywhere /\ NoPartialAtEnd) => sret = in_messages

\* a call with stop words none of which, whole or partial, is in the messages
C14_Witness ==
    /\ spc = "done"
    /\ stop # <<>>
    /\ NoStopAnywhere
    /\ NoPartialAtEnd
    /\ \E i \in 1..Len(in_messages) : \E j \in TextParts(in_messages[i]) :
           in_messages[i].content[j].value # <<>>
    /\ sret = in_messages

(* C15 - Partial-stop trimming: the step that returns the list cuts, from  *)
(* the last text part of the last message kept, the longest stop word      *)
(* without its last token that ends it, and changes no other part.         *)
C15_PartialStripLongest ==
    [][spc = "partial" =>
          LET n == local.trunc
              c == local.objs[n].content
              i == LastText(c)
          IN /\ Len(sret') = n
             /\ \A m \in 1..(n - 1) : sret'[m] = local.objs[m]
             /\ sret'[n].content =
                    IF i = 0 THEN c
                    ELSE [c EXCEPT ![i].value = WithoutLongestPartial(@)]]_vars

----------------------------------------------------------------------------
(* Vocabulary of the claims on the retry wrappers *)

Done(w) == w.pc = "done"

\* attempt k raised a ModelServiceError
Failed(k) == outcomes[k].kind = "raise" /\ outcomes[k].error.class = "ModelServiceError"

\* the errors that are never retried
FatalError(e) ==
    /\ e.class = "ModelServiceError"
    /\ \/ e.code \in {"400", "DataInspectionFailed"}
       \/ e.says \cap {"inappropriate content", "maximum context length"} # {}

FatalAt(k) == Failed(k) /\ FatalError(outcomes[k].error)

RetryableAt(k) == Failed(k) /\ ~FatalError(outcomes[k].error)

\* the last thing the call did was to invoke fn, not to sleep
EndsWithCall(w) == w.log # <<>> /\ w.log[Len(w.log)] = "call"

\* call, sleep, call, sleep, ..
Alternating(log) ==
    \A i \in 1..Len(log) : log[i] = (IF i % 2 = 1 THEN "call" ELSE "sleep")

\* the attempts of call w that are over
Over(w) == IF w.pc = "stream" THEN w.attempts - 1 ELSE w.attempts

ShortCircuit(w) ==
    \A k \in 1..Over(w) :
        FatalAt(k) => /\ k = w.attempts
                      /\ Done(w)
                      /\ w.result = Raised(outcomes[k].error)
                      /\ EndsWithCall(w)
                      /\ w.sleeps = k - 1

\* <<k, 1>>, .., <<k, n>>: the first n values of attempt k
AttemptValues(k, n) == [j \in 1..n |-> <<k, j>>]

RECURSIVE ValuesFrom(_, _)
ValuesFrom(produced, k) ==
    IF k > Len(produced) THEN <<>>
    ELSE AttemptValues(k, produced[k]) \o ValuesFrom(produced, k + 1)

----------------------------------------------------------------------------
(* C16 - Fatal short-circuit: in both wrappers, an attempt that raises a   *)
(* fatal ModelServiceError (code '400' or 'DataInspectionFailed', or text  *)
(* with 'inappropriate content' or 'maximum context length') is the last   *)
(* attempt: the call raises that same error with no sleep after it, on the *)
(* first attempt (one invocation, no sleep) as after retryable failures.   *)
C16_FatalShortCircuit == ShortCircuit(blocking) /\ ShortCircuit(streaming)

\* a fatal error by its text, after a retryable failure and a sleep
C16_Witness ==
    /\ Done(blocking)
    /\ blocking.attempts = 2
    /\ RetryableAt(1)
    /\ FatalAt(2)
    /\ outcomes[2].error.code = "500"
    /\ blocking.result = Raised(outcomes[2].error)

(* C17 - Retry exhaustion and termination: with max_retries = n >= 1,      *)
(* retry_model_service invokes fn at most n+1 times, one attempt after the *)
(* other with one sleep between two attempts; if every attempt raises a    *)
(* retryable error it makes n+1 attempts and n sleeps, none after the last *)
(* failure, and raises the maximum-number-of-retries error; if it returns, *)
(* it returns the value of the first attempt that succeeded.               *)
C17_RetryExhaustion ==
    max_retries >= 1 =>
        /\ blocking.attempts <= max_retries + 1
        /\ Alternating(blocking.log)
        /\ (Done(blocking) /\ \A k \in 1..blocking.attempts : RetryableAt(k))
               => /\ blocking.attempts = max_retries + 1
                  /\ blocking.sleeps = max_retries
                  /\ EndsWithCall(blocking)
                  /\ blocking.result = Raised(MaxRetriesExceeded)
        /\ (Done(blocking) /\ blocking.result.kind = "return")
               => /\ blocking.result.value = blocking.attempts
                  /\ outcomes[blocking.attempts].kind = "ok"
                  /\ \A k \in 1..(blocking.attempts - 1) : outcomes[k].kind # "ok"

\* the retries are used up
C17_Witness ==
    /\ max_retries >= 2
    /\ Done(blocking)
    /\ \A k \in 1..blocking.attempts : RetryableAt(k)
    /\ blocking.attempts = max_retries + 1
    /\ blocking.result = Raised(MaxRetriesExceeded)

(* C18 - With max_retries <= 0 the first ModelServiceError of fn, fatal or *)
(* retryable, is raised as it is after one invocation and no sleep.        *)
C18_NoRetries ==
    (max_retries <= 0 /\ blocking.attempts >= 1 /\ Failed(1))
        => /\ Done(blocking)
           /\ blocking.result = Raised(outcomes[1].error)
           /\ blocking.attempts = 1
           /\ blocking.sleeps = 0

\* a retryable error with max_retries = 0
C18_Witness ==
    /\ max_retries = 0
    /\ Done(blocking)
    /\ RetryableAt(1)
    /\ blocking.result = Raised(outcomes[1].error)

(* C19 - Streaming retry restarts from scratch: at every moment the        *)
(* consumer of retry_model_service_iterator has received, in order, every  *)
(* value the attempts made so far have produced, each attempt starting     *)
(* with its first value; so at a return it has the partial outputs of the  *)
(* failed attempts followed by the whole output of the last one.           *)
C19_StreamRestarts ==
    /\ Len(streaming.produced) = streaming.attempts
    /\ streaming.out = ValuesFrom(streaming.produced, 1)
    /\ (Done(streaming) /\ streaming.result.kind = "return")
           => /\ outcomes[streaming.attempts].kind = "ok"
              /\ streaming.produced[streaming.attempts] = streaming.yields
              /\ \A k \in 1..(streaming.attempts - 1) : RetryableAt(k)

\* a stream that failed after a value, was started again and ended well
C19_Witness ==
    /\ Done(streaming)
    /\ streaming.result.kind = "return"
    /\ streaming.attempts = 2
    /\ streaming.produced[1] >= 1
    /\ streaming.produced[2] >= 1
    /\ streaming.out = AttemptValues(1, streaming.produced[1])
                           \o AttemptValues(2, streaming.produced[2])

(* C20 - The two wrappers are equivalent in control: on the same           *)
(* max_retries and the same outcomes of the attempts they make the same    *)
(* number of attempts and of sleeps and end alike (the return of the same  *)
(* attempt, the same fatal error, or the maximum-number-of-retries error), *)
(* whatever number of values the attempts of the stream yielded.           *)
C20_WrappersEquivalent ==
    (Done(blocking) /\ Done(streaming))
        => /\ streaming.attempts = blocking.attempts
           /\ streaming.sleeps = blocking.sleeps
           /\ streaming.log = blocking.log
           /\ streaming.result = blocking.result

\* every attempt of the stream yields values before its retryable error, and the
\* retries are used up all the same
C20_Witness ==
    /\ Done(blocking)
    /\ Done(streaming)
    /\ max_retries >= 1
    /\ \A k \in 1..streaming.attempts : RetryableAt(k) /\ streaming.produced[k] >= 1
    /\ streaming.result = Raised(MaxRetriesExceeded)

----------------------------------------------------------------------------
\* 2^k
RECURSIVE Pow2(_)
Pow2(k) == IF k = 0 THEN 1 ELSE 2 * Pow2(k - 1)

\* the k-th sleep of call w is in [min(2^k, max_delay), 2 * min(2^k, max_delay))
InSchedule(w) ==
    \A k \in 1..Len(w.slept) :
        /\ w.slept[k] >= Min(Pow2(k), max_delay)
        /\ w.slept[k] < 2 * Min(Pow2(k), max_delay)
        /\ w.slept[k] < 2 * max_delay

(* C21 - Backoff schedule: in both wrappers the k-th sleep of a call is at *)
(* least min(2^k, max_delay) and less than 2 * min(2^k, max_delay), and no *)
(* sleep reaches 2 * max_delay.                                            *)
C21_BackoffSchedule == InSchedule(blocking) /\ InSchedule(streaming)

----------------------------------------------------------------------------
(* Vocabulary of the claims on the strategies of _truncate_turn *)

\* the entries of the result that come from turn t
FromTurn(t) == {k \in 1..Len(ret) : InTurn(t, ret[k].idx)}

IsOmit(msg) == msg # NoneMsg /\ msg.parts = <<OMIT>>

\* an entry returned as it is in the input
AsInput(e) == e.msg = messages[e.idx]

\* an entry that _truncate_message built: neither the input's message nor the placeholder
Rebuilt(e) == e.msg # NoneMsg /\ ~IsOmit(e.msg) /\ ~AsInput(e)

LastTurn == InputTurns[Len(InputTurns)]

\* no input message has two entries in the result
NoDuplicate == \A a, b \in 1..Len(ret) : a # b => ret[a].idx # ret[b].idx

(* C25 - Cascade order and minimality, in what a returned turn shows: a    *)
(* message is rebuilt by _truncate_message only while the exceedance is    *)
(* positive, and rebuilding it closes the gap; once the exceedance is zero *)
(* every remaining message of the turn is returned exactly as in the       *)
(* input, so no turn of the result holds two rebuilt messages.             *)
C25_CascadeMinimal ==
    (Returned /\ WellFormed(messages) /\ NoNone /\ NoDuplicate) =>
        \A n \in 1..Len(InputTurns) : \A k, l \in FromTurn(InputTurns[n]) :
            (k # l /\ Rebuilt(ret[k])) => ~Rebuilt(ret[l])

(* C26 - The latest user message is the last thing to be sacrificed: the   *)
(* first message of the final turn is returned as in the input unless      *)
(* every other message of that turn in the result is the placeholder.      *)
C26_UserSacrificedLast ==
    (Returned /\ WellFormed(messages) /\ NoNone /\ Len(InputTurns) > 0) =>
        \A k \in FromTurn(LastTurn) :
            (ret[k].idx = LastTurn[1] /\ ~AsInput(ret[k]))
                => \A l \in FromTurn(LastTurn) : ret[l].idx # LastTurn[1] => IsOmit(ret[l].msg)

(* C27 - Assertion validity: on no conversation that passes validation and *)
(* no max_tokens does `assert is_last_turn` fail.                          *)
C27_AssertionValid == err # "AssertionError"

(* C28 - The last turn is never dropped as a whole: when the conversation  *)
(* has a turn and the call returns, the result holds a message that comes  *)
(* from the last turn.                                                     *)
C28_LastTurnKept ==
    (Returned /\ Len(InputTurns) > 0) =>
        \E k \in FromTurn(LastTurn) : ret[k].msg # NoneMsg

----------------------------------------------------------------------------
(* BaseChatModel.chat (model.py).  The model follows one chat model object *)
(* through its calls of chat: its attributes, the disk cache, and for the  *)
(* running call the position in chat and what happened so far.  The calls  *)
(* chat makes are events: the outcome of truncate_input_messages_roughly   *)
(* and of every invocation of the model service is chosen when the call is *)
(* made, and the counters record how the service was invoked and how each  *)
(* output reached the caller.  All calls carry the same cache key.         *)

\* the values of max_input_tokens explored
ChatBudgets == {0, 1}

\* what truncate_input_messages_roughly does when it is called
TruncationOutcomes == {"returned", "raised"}

\* what an invocation of the model service does
ServiceOutcomes ==
    {Ok, Raises(ModelServiceError("500", {})), Raises(ModelServiceError("400", {})),
     Raises(OtherException)}

\* the arguments of a call and the properties of its messages that chat tests
ChatInputs ==
    [stream : BOOLEAN, delta_stream : BOOLEAN, max_input_tokens : ChatBudgets,
     empty : BOOLEAN, bad_choice : BOOLEAN]

\* self.use_raw_api, self.max_retries, and whether the generate_cfg of the calls
\* carries skip_stopword_postproc
ChatAttributes == [use_raw_api : BOOLEAN, max_retries : 0..MaxRetries, skip : BOOLEAN]

\* lines 100-104: no cache, or a cache that holds nothing or entries of other keys
NewCaches == {"none", "empty", "other"}

\* the cache holds an output for the key of the calls
Cached == cache \in {"stopped", "unstopped"}

\* the truth value of self.cache (line 250): None is false, and so is a
\* diskcache.Cache with no entry, whose __len__ is 0
CacheTruthy == cache \notin {"none", "empty"}

\* the start of a call of chat
NewChat(a, i) ==
    [use_raw_api |-> a.use_raw_api, max_retries |-> a.max_retries, skip |-> a.skip,
     stream |-> i.stream, delta_stream |-> i.delta_stream,
     max_input_tokens |-> i.max_input_tokens, empty |-> i.empty,
     bad_choice |-> i.bad_choice,
     pc |-> "unify", truncation |-> "", invoked |-> 0, direct |-> 0, num_retries |-> 0,
     delivered |-> 0, unstopped |-> 0, from_cache |-> 0, raised |-> ""]

InitChat ==
    /\ NoTruncCall
    /\ NoStopCall
    /\ NoRetryCall
    /\ NoStorageCall
    /\ NoAgentCall
    /\ cache \in NewCaches
    /\ chat \in {NewChat(a, i) : a \in ChatAttributes, i \in ChatInputs}

\* the call raises e
ChatRaise(c, e) == [c EXCEPT !.pc = "done", !.raised = e]

\* one invocation of _call_model_service, through a retry wrapper or not
Invoke(c, wrapped) ==
    [c EXCEPT !.invoked = @ + 1, !.direct = IF wrapped THEN @ ELSE @ + 1]

\* a postprocessing that never applies the stop words
SkipStopWordsAlways(c) == TRUE

\* lines 255-258, 320: _postprocess_messages leaves postprocess_stop_words out
SkipStopWords(c) == c.skip \/ (c.stream /\ c.delta_stream)

\* n outputs reach the caller, through _postprocess_messages
Deliver(c, n) ==
    [c EXCEPT !.delivered = @ + n, !.unstopped = IF SkipStopWords(c) THEN @ + n ELSE @]

\* what the cache holds after cache.set of an output of call c
Stored(c) == IF SkipStopWords(c) THEN "unstopped" ELSE "stopped"

\* lines 139-151
ChatUnify ==
    /\ chat.pc = "unify"
    /\ chat' = IF chat.empty THEN ChatRaise(chat, "ValueError")
               ELSE [chat EXCEPT !.pc = "lookup"]
    /\ UNCHANGED <<cache, truncVars, stopVars, retryVars, storageVars, agentVars>>

\* lines 153-164
ChatCacheLookup ==
    /\ chat.pc = "lookup"
    /\ chat' = IF Cached
               THEN [chat EXCEPT !.pc = "done", !.delivered = @ + 1, !.from_cache = @ + 1,
                                 !.unstopped = IF cache = "unstopped" THEN @ + 1 ELSE @]
               ELSE [chat EXCEPT !.pc = "truncate"]
    /\ UNCHANGED <<cache, truncVars, stopVars, retryVars, storageVars, agentVars>>

\* lines 186-189
ChatTruncate ==
    /\ chat.pc = "truncate"
    /\ IF chat.max_input_tokens > 0
       THEN \E o \in TruncationOutcomes :
                chat' = IF o = "raised"
                        THEN [ChatRaise(chat, "truncation") EXCEPT !.truncation = o]
                        ELSE [chat EXCEPT !.pc = "choice", !.truncation = o]
       ELSE chat' = [chat EXCEPT !.pc = "choice", !.truncation = "skipped"]
    /\ UNCHANGED <<cache, truncVars, stopVars, retryVars, storageVars, agentVars>>

\* lines 191-210
ChatFunctionChoice ==
    /\ chat.pc = "choice"
    /\ chat' = IF chat.bad_choice THEN ChatRaise(chat, "ValueError")
               ELSE [chat EXCEPT !.pc = "dispatch"]
    /\ UNCHANGED <<cache, truncVars, stopVars, retryVars, storageVars, agentVars>>

\* lines 212-215, 351-357
ChatRawApi ==
    /\ chat.pc = "dispatch"
    /\ chat.use_raw_api
    /\ chat' = IF chat.stream /\ ~chat.delta_stream
               THEN [Invoke(chat, FALSE) EXCEPT !.pc = "raw"]
               ELSE ChatRaise(chat, "AssertionError")
    /\ UNCHANGED <<cache, truncVars, stopVars, retryVars, storageVars, agentVars>>

\* lines 236-241
ChatDispatch ==
    /\ chat.pc = "dispatch"
    /\ ~chat.use_raw_api
    /\ chat' = IF chat.stream /\ chat.delta_stream
               THEN [Invoke(chat, FALSE) EXCEPT !.pc = "post"]
               ELSE IF chat.stream THEN [chat EXCEPT !.pc = "post"]
               ELSE [chat EXCEPT !.pc = "blocking"]
    /\ UNCHANGED <<cache, truncVars, stopVars, retryVars, storageVars, agentVars>>

\* retry.py lines 21-22, 38-39: the except clause of a wrapper
ChatExcept(c, e) ==
    IF e.class # "ModelServiceError" THEN ChatRaise(c, e.class)
    ELSE LET r == _raise_or_delay(e, c.num_retries, c.max_retries)
         IN IF r.raise THEN ChatRaise(c, r.error.class)
            ELSE [c EXCEPT !.num_retries = r.num_retries]

\* line 241, retry.py lines 17-22: one attempt of retry_model_service
ChatBlockingAttempt ==
    /\ chat.pc = "blocking"
    /\ \E o \in ServiceOutcomes :
           LET c == Invoke(chat, TRUE)
           IN chat' = IF o.kind = "ok" THEN [c EXCEPT !.pc = "post"]
                      ELSE ChatExcept(c, o.error)
    /\ UNCHANGED <<cache, truncVars, stopVars, retryVars, storageVars, agentVars>>

\* lines 244-271: the list is postprocessed, cached and returned; the iterator is
\* wrapped and returned
ChatPostprocess ==
    /\ chat.pc = "post"
    /\ IF ~chat.stream
       THEN /\ chat' = [Deliver(chat, 1) EXCEPT !.pc = "done"]
            /\ cache' = IF CacheTruthy THEN Stored(chat) ELSE cache
       ELSE /\ chat' = IF chat.delta_stream /\ chat.skip
                       THEN ChatRaise(chat, "AssertionError")
                       ELSE [chat EXCEPT !.pc = "iterate"]
            /\ cache' = cache
    /\ UNCHANGED <<truncVars, stopVars, retryVars, storageVars, agentVars>>

\* lines 263-269: the caller has exhausted the iterator
ChatEndOfStream(c) ==
    /\ chat' = [c EXCEPT !.pc = "done"]
    /\ cache' = IF c.delivered > 0 /\ cache # "none" THEN Stored(c) ELSE cache

\* line 239, retry.py lines 33-39, lines 263-267, 325-327: the caller iterates; one
\* attempt of retry_model_service_iterator yields y outputs and ends
ChatStreamAttempt ==
    /\ chat.pc = "iterate"
    /\ ~chat.delta_stream
    /\ \E o \in ServiceOutcomes, y \in 0..MaxYield :
           LET c == Deliver(Invoke(chat, TRUE), y)
           IN IF o.kind = "ok" THEN ChatEndOfStream(c)
              ELSE chat' = ChatExcept(c, o.error) /\ cache' = cache
    /\ UNCHANGED <<truncVars, stopVars, retryVars, storageVars, agentVars>>

\* lines 237, 263-267, 325-327: the caller iterates the output of the one invocation
ChatDeltaStream ==
    /\ chat.pc = "iterate"
    /\ chat.delta_stream
    /\ \E o \in ServiceOutcomes, y \in 0..MaxYield :
           LET c == Deliver(chat, y)
           IN IF o.kind = "ok" THEN ChatEndOfStream(c)
              ELSE chat' = ChatRaise(c, o.error.class) /\ cache' = cache
    /\ UNCHANGED <<truncVars, stopVars, retryVars, storageVars, agentVars>>

\* lines 215, 356-357: the caller iterates what raw_chat returned
ChatRawStream ==
    /\ chat.pc = "raw"
    /\ \E o \in ServiceOutcomes, y \in 0..MaxYield :
           LET c == [chat EXCEPT !.delivered = @ + y, !.unstopped = @ + y]
           IN chat' = IF o.kind = "ok" THEN [c EXCEPT !.pc = "done"]
                      ELSE ChatRaise(c, o.error.class)
    /\ UNCHANGED <<cache, truncVars, stopVars, retryVars, storageVars, agentVars>>

\* the next call of chat on the same object
ChatCall ==
    /\ chat.pc = "done"
    /\ \E i \in ChatInputs : chat' = NewChat(chat, i)
    /\ UNCHANGED <<cache, truncVars, stopVars, retryVars, storageVars, agentVars>>

NextChat ==
    \/ ChatUnify
    \/ ChatCacheLookup
    \/ ChatTruncate
    \/ ChatFunctionChoice
    \/ ChatRawApi
    \/ ChatDispatch
    \/ ChatBlockingAttempt
    \/ ChatPostprocess
    \/ ChatStreamAttempt
    \/ ChatDeltaStream
    \/ ChatRawStream
    \/ ChatCall

SpecChat == InitChat /\ [][NextChat]_vars

----------------------------------------------------------------------------
(* Vocabulary of the claim on chat *)

\* the wrappers and the postprocessing are left out: deprecated delta streaming
DeltaMode == chat.stream /\ chat.delta_stream

ServiceAfterTruncation == chat.invoked > 0 => chat.truncation = "returned"

NoServiceAfterFailedTruncation == chat.truncation = "raised" => chat.invoked = 0

(* C22 - Pipeline order in BaseChatModel.chat, as stated: in every mode    *)
(* the model service is invoked only after truncation has returned         *)
(* normally, every invocation goes through a retry wrapper, every output   *)
(* delivered has passed stop-word postprocessing, and a truncation that    *)
(* raises leaves the service uninvoked.                                    *)
C22_PipelineOrderAsStated ==
    /\ ServiceAfterTruncation
    /\ chat.direct = 0
    /\ chat.unstopped = 0
    /\ NoServiceAfterFailedTruncation

(* C22 - Pipeline order in BaseChatModel.chat, amended: when               *)
(* max_input_tokens is positive the service is invoked only after          *)
(* truncation has returned normally; outside the raw API and delta         *)
(* streaming every invocation goes through a retry wrapper; outside the    *)
(* raw API, delta streaming and skip_stopword_postproc every output the    *)
(* call computes has passed stop-word postprocessing; a truncation that    *)
(* raises leaves the service uninvoked.                                    *)
C22_PipelineOrder ==
    /\ chat.max_input_tokens > 0 => ServiceAfterTruncation
    /\ chat.max_input_tokens <= 0 => chat.truncation \in {"", "skipped"}
    /\ (~chat.use_raw_api /\ ~DeltaMode) => chat.direct = 0
    /\ (~chat.use_raw_api /\ ~DeltaMode /\ ~chat.skip) => chat.unstopped <= chat.from_cache
    /\ NoServiceAfterFailedTruncation

\* a streamed call with a positive budget was truncated, retried once through the
\* wrapper and delivered postprocessed outputs
C22_Witness ==
    /\ chat.pc = "done"
    /\ chat.raised = ""
    /\ chat.stream /\ ~chat.delta_stream /\ ~chat.use_raw_api /\ ~chat.skip
    /\ chat.max_input_tokens > 0
    /\ chat.truncation = "returned"
    /\ chat.invoked = 2
    /\ chat.delivered > 0
    /\ chat.from_cache = 0

----------------------------------------------------------------------------
(* Storage (tools/storage.py).  A str is the sequence of its code points,  *)
(* a bytes object the sequence of its bytes; db is the content of          *)
(* storage.db, a function from the stored keys (bytes) to the stored       *)
(* values (bytes).  ops is the history of the calls of Storage.call: the   *)
(* parameters of each and what it returned or raised.                      *)

\* the most calls of Storage.call in a history
MaxOps == 3

\* code points: '/', 'a', 'b', 'v' and the two-byte 'e acute'
SLASH == 47

CharA == 97

CharB == 98

CharV == 118

CharEAcute == 233

\* str.encode('utf-8'), for code points below 2048
RECURSIVE encode(_)
encode(str) ==
    IF str = <<>> THEN <<>>
    ELSE LET c == Head(str)
         IN (IF c < 128 THEN <<c>> ELSE <<192 + (c \div 64), 128 + (c % 64)>>)
            \o encode(Tail(str))

\* bytes.decode('utf-8'), for what encode produces
RECURSIVE decode(_)
decode(bytes) ==
    IF bytes = <<>> THEN <<>>
    ELSE IF Head(bytes) < 128 THEN <<Head(bytes)>> \o decode(Tail(bytes))
    ELSE <<(Head(bytes) - 192) * 64 + (bytes[2] - 128)>> \o decode(Tail(Tail(bytes)))

\* str.startswith
startswith(str, prefix) ==
    Len(prefix) <= Len(str) /\ SubSeq(str, 1, Len(prefix)) = prefix

\* str.lstrip('/')
RECURSIVE lstrip(_)
lstrip(str) == IF str # <<>> /\ Head(str) = SLASH THEN lstrip(Tail(str)) ELSE str

\* str.rstrip('/')
RECURSIVE rstrip(_)
rstrip(str) ==
    IF str # <<>> /\ str[Len(str)] = SLASH THEN rstrip(SubSeq(str, 1, Len(str) - 1)) ELSE str

\* a normalisation that strips every leading slash
_norm_key_all(key) == lstrip(key)

\* lines 27-29
_norm_key(key) == IF startswith(key, <<SLASH>>) THEN Tail(key) ELSE key

\* the keys of the calls explored: '/' (the default of the parameter), 'a', '/a',
\* '//a', 'a/b', 'a//b', 'ab'
StorageKeys ==
    {<<SLASH>>, <<CharA>>, <<SLASH, CharA>>, <<SLASH, SLASH, CharA>>,
     <<CharA, SLASH, CharB>>, <<CharA, SLASH, SLASH, CharB>>, <<CharA, CharB>>}

\* the values of the calls explored: 'v' and 'e acute'
StorageValues == {<<CharV>>, <<CharEAcute>>}

NoParam == <<-1>>

\* the parameters of a call
StorageCalls ==
    [operate : {"put"}, key : StorageKeys, value : StorageValues]
        \cup [operate : {"get", "delete", "scan"}, key : StorageKeys, value : {NoParam}]

\* what a call returned or raised
Reply(kind, text) == [kind |-> kind, text |-> text, kvs |-> <<>>]

\* the listing that scan returns, as the dict kvs it is printed from
Listing(kvs) == [kind |-> "listing", text |-> <<>>, kvs |-> kvs]

InitStorage ==
    /\ NoTruncCall
    /\ NoStopCall
    /\ NoRetryCall
    /\ NoChatCall
    /\ NoAgentCall
    /\ db = <<>>
    /\ ops = <<>>

\* db[kb] = value
DbSet(kb, vb) == [k \in DOMAIN db \cup {kb} |-> IF k = kb THEN vb ELSE db[k]]

\* del db[kb]
DbDel(kb) == [k \in DOMAIN db \ {kb} |-> db[k]]

\* the call with parameters p ends with reply r
Replied(p, r) == ops' = Append(ops, [operate |-> p.operate, key |-> p.key, value |-> p.value, reply |-> r])

\* lines 68-75, 83-93
StoragePut ==
    /\ Len(ops) < MaxOps
    /\ \E p \in StorageCalls :
           /\ p.operate = "put"
           /\ LET key == _norm_key(p.key)
              IN /\ db' = DbSet(encode(key), encode(p.value))
                 /\ Replied(p, Reply("saved", key))
    /\ UNCHANGED <<truncVars, stopVars, retryVars, chatVars, agentVars>>

\* lines 68-72, 76-77, 95-101
StorageGet ==
    /\ Len(ops) < MaxOps
    /\ \E p \in StorageCalls :
           /\ p.operate = "get"
           /\ LET key == _norm_key(p.key)
                  kb == encode(key)
              IN IF kb \notin DOMAIN db
                 THEN Replied(p, Reply("KeyNotExistsError", key))
                 ELSE Replied(p, Reply("value", decode(db[kb])))
    /\ UNCHANGED <<db, truncVars, stopVars, retryVars, chatVars, agentVars>>

\* lines 68-72, 78-79, 103-110
StorageDelete ==
    /\ Len(ops) < MaxOps
    /\ \E p \in StorageCalls :
           /\ p.operate = "delete"
           /\ LET key == _norm_key(p.key)
                  kb == encode(key)
              IN IF kb \notin DOMAIN db
                 THEN db' = db /\ Replied(p, Reply("Delete Failed", key))
                 ELSE db' = DbDel(kb) /\ Replied(p, Reply("deleted", key))
    /\ UNCHANGED <<truncVars, stopVars, retryVars, chatVars, agentVars>>

\* line 114
ScanPrefix(key) == IF key # <<>> THEN rstrip(key) \o <<SLASH>> ELSE <<>>

\* line 119: the stored key k_str is listed
Scanned(k_str, key) ==
    k_str = key \/ (ScanPrefix(key) # <<>> /\ startswith(k_str, ScanPrefix(key)))

\* line 120: the name under which it is listed
Rel(k_str, key) ==
    IF key # <<>> /\ startswith(k_str, key)
    THEN <<SLASH>> \o lstrip(SubSeq(k_str, Len(key) + 1, Len(k_str)))
    ELSE <<SLASH>> \o k_str

\* lines 116-121: the dicts the loop can build; when two stored keys get the same
\* name, the one that db.keys() gives last is kept
ScanDicts(key) ==
    LET found == {k \in DOMAIN db : Scanned(decode(k), key)}
        rels == {Rel(decode(k), key) : k \in found}
    IN {kvs \in [rels -> {decode(db[k]) : k \in found}] :
            \A r \in rels : \E k \in found : Rel(decode(k), key) = r /\ kvs[r] = decode(db[k])}

\* lines 68-72, 80-81, 112-124
StorageScan ==
    /\ Len(ops) < MaxOps
    /\ \E p \in StorageCalls :
           /\ p.operate = "scan"
           /\ LET key == _norm_key(p.key)
              IN \E kvs \in ScanDicts(key) :
                     IF DOMAIN kvs = {}
                     THEN Replied(p, Reply("Scan Failed", key))
                     ELSE Replied(p, Listing(kvs))
    /\ UNCHANGED <<db, truncVars, stopVars, retryVars, chatVars, agentVars>>

NextStorage ==
    \/ StoragePut
    \/ StorageGet
    \/ StorageDelete
    \/ StorageScan

SpecStorage == InitStorage /\ [][NextStorage]_vars

----------------------------------------------------------------------------
(* Vocabulary of the claims on Storage: the map that the history of calls  *)
(* describes, from keys (str) to values (str)                              *)

\* the key with one leading '/' removed
MapKey(key) == IF key # <<>> /\ key[1] = SLASH THEN SubSeq(key, 2, Len(key)) ELSE key

NoEntries == [k \in {} |-> <<>>]

\* the map after the first n calls: a put binds its key, a delete unbinds it
RECURSIVE MapAfter(_)
MapAfter(n) ==
    IF n = 0 THEN NoEntries
    ELSE LET m == MapAfter(n - 1)
             k == MapKey(ops[n].key)
         IN IF ops[n].operate = "put"
            THEN [x \in DOMAIN m \cup {k} |-> IF x = k THEN ops[n].value ELSE m[x]]
            ELSE IF ops[n].operate = "delete" THEN [x \in DOMAIN m \ {k} |-> m[x]]
            ELSE m

\* storage.db holds exactly the entries of map m
Holds(m) ==
    /\ {decode(kb) : kb \in DOMAIN db} = DOMAIN m
    /\ \A kb \in DOMAIN db : decode(db[kb]) = m[decode(kb)]

\* call n is a get that answers as map m does
GetAnswers(n, m) ==
    LET k == MapKey(ops[n].key)
    IN IF k \in DOMAIN m
       THEN ops[n].reply.kind = "value" /\ ops[n].reply.text = m[k]
       ELSE ops[n].reply.kind = "KeyNotExistsError"

\* call n is a delete that answers as map m does
DeleteAnswers(n, m) ==
    ops[n].reply.kind = IF MapKey(ops[n].key) \in DOMAIN m THEN "deleted" ELSE "Delete Failed"

(* C23 - Through Storage.call the store is a map keyed by the key with one *)
(* leading '/' removed: after any sequence of calls the store holds the    *)
(* entries put and not deleted since, every get returned the value of the  *)
(* most recent put to its key not followed by a delete and raised          *)
(* KeyNotExistsError otherwise, and a delete of an absent key returned     *)
(* 'Delete Failed' and left every entry as it was.                         *)
C23_StoreIsMap ==
    /\ Holds(MapAfter(Len(ops)))
    /\ \A n \in 1..Len(ops) :
           /\ ops[n].operate = "get" => GetAnswers(n, MapAfter(n - 1))
           /\ ops[n].operate = "delete" => DeleteAnswers(n, MapAfter(n - 1))

\* 'a' was put, put again as '/a' with another value, and get 'a' returned the latter
C23_Witness ==
    /\ Len(ops) = 3
    /\ ops[1].operate = "put" /\ ops[1].key = <<CharA>> /\ ops[1].value = <<CharV>>
    /\ ops[2].operate = "put" /\ ops[2].key = <<SLASH, CharA>> /\ ops[2].value = <<CharEAcute>>
    /\ ops[3].operate = "get" /\ ops[3].key = <<CharA>>
    /\ ops[3].reply = Reply("value", <<CharEAcute>>)

\* the scanned key is the root
IsRoot(key) == MapKey(key) = <<>>

\* the keys of map m that equal key or lie under it
Under(key, m) ==
    {k \in DOMAIN m : \/ IsRoot(key)
                      \/ k = MapKey(key)
                      \/ startswith(k, MapKey(key) \o <<SLASH>>)}

\* call n is a scan that lists exactly the entries of map m under its key
ScanAnswers(n, m) ==
    LET under == Under(ops[n].key, m)
        r == ops[n].reply
    IN IF under = {} THEN r.kind = "Scan Failed"
       ELSE /\ r.kind = "listing"
            /\ Cardinality(DOMAIN r.kvs) = Cardinality(under)
            /\ {r.kvs[x] : x \in DOMAIN r.kvs} = {m[k] : k \in under}

(* C24 - Storage scan with key K returns exactly the stored entries whose  *)
(* key equals K or lies under K as a path prefix, and the 'Scan Failed'    *)
(* message only when there is none; scanning the root key '/' on a store   *)
(* that holds entries lists every stored entry.                            *)
C24_ScanListsPrefix ==
    \A n \in 1..Len(ops) : ops[n].operate = "scan" => ScanAnswers(n, MapAfter(n - 1))

----------------------------------------------------------------------------
(* MemoAssistant._truncate_dialogue_history (agents/memo_assistant.py).    *)
(* A message is its role and its position in the argument, which tells the *)
(* messages of a conversation apart; memo holds the argument, the locals   *)
(* and the returned list.  k is the 0-based index of the code.             *)

\* line 96
available_turn == 400

\* the conversations explored have available_turn - MemoSlack to
\* available_turn + MemoSlack user messages in a row, or at most MemoSlack
MemoSlack == 1

\* the roles of the messages before and after the row of user messages
MemoHeads ==
    {<<>>} \cup {<<r>> : r \in {SYSTEM, USER, ASSISTANT}}
           \cup {<<r, q>> : r \in {SYSTEM, USER, ASSISTANT}, q \in {USER, ASSISTANT}}

MemoTails == {<<>>, <<ASSISTANT>>}

MemoRows ==
    (0..MemoSlack) \cup ((available_turn - MemoSlack)..(available_turn + MemoSlack))

\* the conversation with the given roles
Dialogue(roles) == [i \in 1..Len(roles) |-> [role |-> roles[i], id |-> i]]

MemoDialogues ==
    {Dialogue(h \o [i \in 1..n |-> USER] \o t) : h \in MemoHeads, n \in MemoRows, t \in MemoTails}

InitMemo ==
    /\ NoTruncCall
    /\ NoStopCall
    /\ NoRetryCall
    /\ NoChatCall
    /\ NoStorageCall
    /\ pdq = <<>>
    /\ \E d \in MemoDialogues :
           memo = [messages |-> d, pc |-> "loop", new_messages |-> <<>>,
                   available |-> available_turn, k |-> Len(d) - 1, result |-> <<>>]

\* a test that lets one more user message in
NoTurnLeftLate(available) == available < 0

\* line 100
NoTurnLeft(available) == available = 0

\* lines 98-105: one iteration that keeps messages[k]
MemoKeep ==
    /\ memo.pc = "loop"
    /\ memo.k > -1
    /\ ~NoTurnLeft(memo.available)
    /\ LET msg == memo.messages[memo.k + 1]
       IN memo' = [memo EXCEPT !.available = IF msg.role = USER THEN @ - 1 ELSE @,
                               !.new_messages = <<msg>> \o @,
                               !.k = @ - 1]
    /\ UNCHANGED <<pdq, truncVars, stopVars, retryVars, chatVars, storageVars>>

\* lines 98-101: the loop ends, by its test or by break
MemoBreak ==
    /\ memo.pc = "loop"
    /\ memo.k <= -1 \/ NoTurnLeft(memo.available)
    /\ memo' = [memo EXCEPT !.pc = "system"]
    /\ UNCHANGED <<pdq, truncVars, stopVars, retryVars, chatVars, storageVars>>

\* lines 107-110
MemoReturn ==
    /\ memo.pc = "system"
    /\ LET kept == IF memo.k > -1 /\ memo.messages # <<>> /\ memo.messages[1].role = SYSTEM
                   THEN <<memo.messages[1]>> \o memo.new_messages
                   ELSE memo.new_messages
       IN memo' = [memo EXCEPT !.pc = "done", !.new_messages = kept, !.result = kept]
    /\ UNCHANGED <<pdq, truncVars, stopVars, retryVars, chatVars, storageVars>>

NextMemo ==
    \/ MemoKeep
    \/ MemoBreak
    \/ MemoReturn

SpecMemo == InitMemo /\ [][NextMemo]_vars

----------------------------------------------------------------------------
(* Vocabulary of the claim on MemoAssistant *)

\* the positions of the user messages of msgs
UserPositions(msgs) == {i \in 1..Len(msgs) : msgs[i].role = USER}

\* the position of the n-th most recent user message of msgs, 0 if there are fewer
NthLastUser(msgs, n) ==
    LET users == UserPositions(msgs)
    IN IF Cardinality(users) < n THEN 0
       ELSE CHOOSE p \in users : Cardinality({i \in users : i >= p}) = n

\* the first message if it is a system message that starts before position p
SystemHead(msgs, p) ==
    IF msgs # <<>> /\ msgs[1].role = SYSTEM /\ p > 1 THEN <<msgs[1]>> ELSE <<>>

\* what the claim says is kept of msgs
RecentTurns(msgs) ==
    LET p == NthLastUser(msgs, available_turn)
    IN IF p = 0 THEN msgs
       ELSE SystemHead(msgs, p) \o SubSeq(msgs, p, Len(msgs))

----------------------------------------------------------------------------
(* ParallelDocQA._run (agents/doc_qa/parallel_doc_qa.py), a generator, and *)
(* the caller that iterates it to its end.  pdq holds the locals of _run,  *)
(* the list of what the caller received (yielded), the value the generator *)
(* returned with, and the error it raised.  What the parsers, the member   *)
(* agents and the retrieval do is chosen at their calls.                   *)

\* line 37
MAX_NO_RESPONSE_RETRY == 4

\* the most records the documents parse into
MaxChunks == 2

NoIterator == [kind |-> "none", responses |-> 0]

\* the iterator that summary_agent.run(...) returns, which would yield n responses
SummaryIterator(n) == [kind |-> "summary_agent.run", responses |-> n]

InitPdq ==
    /\ NoTruncCall
    /\ NoStopCall
    /\ NoRetryCall
    /\ NoChatCall
    /\ NoStorageCall
    /\ memo = <<>>
    /\ pdq = [pc |-> "parse", records |-> 0, data |-> 0, retry_cnt |-> 0, rounds |-> <<>>,
              yielded |-> <<>>, returned |-> NoIterator, raised |-> ""]

\* yield [Message(...)] followed by return
YieldAndReturn(q, message) == [q EXCEPT !.pc = "done", !.yielded = Append(@, message)]

\* lines 467-479
PdqParse ==
    /\ pdq.pc = "parse"
    /\ \E records \in 0..MaxChunks :
           pdq' = IF records = 0
                  THEN YieldAndReturn(pdq, "Error: No valid documents to process")
                  ELSE [pdq EXCEPT !.pc = "prepare", !.records = records]
    /\ UNCHANGED <<memo, truncVars, stopVars, retryVars, chatVars, storageVars>>

\* lines 481-497
PdqPrepare ==
    /\ pdq.pc = "prepare"
    /\ \E data \in 0..pdq.records :
           pdq' = IF data = 0
                  THEN YieldAndReturn(pdq, "Error: No valid content to process")
                  ELSE [pdq EXCEPT !.pc = "fanout", !.data = data,
                                   !.retry_cnt = MAX_NO_RESPONSE_RETRY]
    /\ UNCHANGED <<memo, truncVars, stopVars, retryVars, chatVars, storageVars>>

\* lines 499-514: one round of the member fan-out, which gives so many valid responses
PdqFanOut ==
    /\ pdq.pc = "fanout"
    /\ pdq.retry_cnt > 0
    /\ \E filtered_results \in 0..pdq.data :
           LET q == [pdq EXCEPT !.rounds = Append(@, filtered_results)]
           IN pdq' = IF filtered_results > 0 THEN [q EXCEPT !.pc = "retrieve"]
                     ELSE IF q.retry_cnt - 1 > 0 THEN [q EXCEPT !.retry_cnt = @ - 1]
                     ELSE [q EXCEPT !.retry_cnt = @ - 1, !.pc = "retrieve"]
    /\ UNCHANGED <<memo, truncVars, stopVars, retryVars, chatVars, storageVars>>

\* lines 516-522: _retrieve_according_to_member_responses returns or raises
PdqRetrieve ==
    /\ pdq.pc = "retrieve"
    /\ \E outcome \in {"returned", "raised"} :
           pdq' = IF outcome = "raised" THEN [pdq EXCEPT !.pc = "done", !.raised = "retrieval"]
                  ELSE [pdq EXCEPT !.pc = "summary"]
    /\ UNCHANGED <<memo, truncVars, stopVars, retryVars, chatVars, storageVars>>

\* line 525: `return self.summary_agent.run(...)` in a generator ends the iteration;
\* the iterator is the value of its StopIteration and nobody iterates it
ReturnSummary(q, n) == [q EXCEPT !.pc = "done", !.returned = SummaryIterator(n)]

\* line 525
PdqSummary ==
    /\ pdq.pc = "summary"
    /\ \E n \in 1..MaxYield : pdq' = ReturnSummary(pdq, n)
    /\ UNCHANGED <<memo, truncVars, stopVars, retryVars, chatVars, storageVars>>

NextPdq ==
    \/ PdqParse
    \/ PdqPrepare
    \/ PdqFanOut
    \/ PdqRetrieve
    \/ PdqSummary

\* the caller iterates the generator to its end, and every call _run makes returns or
\* raises: a step that can be taken is taken
SpecPdq == InitPdq /\ [][NextPdq]_vars /\ WF_vars(NextPdq)

----------------------------------------------------------------------------
(* Vocabulary of the claim on ParallelDocQA *)

\* the fan-out is over
FanOutOver == pdq.pc \in {"retrieve", "summary"} \/ pdq.returned # NoIterator \/ pdq.raised # ""

\* it ran at least once, at most MAX_NO_RESPONSE_RETRY times, and no round before
\* the last gave a valid response
FanOutBounded ==
    /\ Len(pdq.rounds) <= MAX_NO_RESPONSE_RETRY
    /\ \A i \in 1..Len(pdq.rounds) - 1 : pdq.rounds[i] = 0
    /\ FanOutOver =>
           /\ Len(pdq.rounds) >= 1
           /\ Len(pdq.rounds) < MAX_NO_RESPONSE_RETRY => pdq.rounds[Len(pdq.rounds)] > 0

\* the caller has received a response of the summary agent
Answered == \E i \in 1..Len(pdq.yielded) : pdq.yielded[i] = "summary response"

(* C30 - ParallelDocQA._run answers on the success path: when a document   *)
(* parses and yields chunks, the member fan-out runs at least once and at  *)
(* most MAX_NO_RESPONSE_RETRY times, stopping after the first round with a *)
(* valid response, and once the summary agent is reached its responses are *)
(* eventually yielded to the caller that iterates _run.                    *)
C30_AnswersOnSuccess == [](FanOutBounded) /\ ((pdq.pc = "summary") ~> Answered)

====
